---- MODULE Spec2Model ----
(***************************************************************************)
(* A model of the resource correlation and policy reconciliation engine of *)
(* the headlamp plugins (knative traffic splitting, envoy-gateway security *)
(* policies).  Each part of the engine has its own specification:          *)
(*   SpecTraffic  - the traffic editor (TrafficSplittingSection.tsx)       *)
(*   SpecPolicy   - the upserts of security policies (api/envoy.ts)        *)
(*   SpecLocate   - the lookups of routes and policies (api/envoy.ts)      *)
(*   SpecForm     - the forms that validate CIDR lists before a write      *)
(*   SpecEngine   - every operation of api/envoy.ts that writes            *)
(*   SpecRetry    - the retry section (RetrySection.tsx)                   *)
(***************************************************************************)
EXTENDS Integers, Sequences, FiniteSets, TLC

VARIABLES
    \* ---- traffic editor (TrafficSplittingSection.tsx) ----
    traffic,            \* the server's spec.traffic of the service
    revPercents,        \* React state: revision name -> percent
    revTags,            \* React state: revision name -> confirmed tags
    latestPercent,      \* React state: percent of the "latest" row
    latestTags,         \* React state: confirmed tags of the "latest" row
    pendingTagInputs,   \* React state: row -> text typed in the tag input
    tagInputValue,      \* DOM: value of each row's tag <input> (read through the refs)
    savingTraffic,      \* React state: a save is in flight
    inflight,           \* the save suspended at `await updateTraffic(...)`
    attempt,            \* what the last onSaveTraffic call saw and did
    notes,              \* notifications raised by the last onSaveTraffic call
    edits               \* number of user edits made so far

trafficVars == <<traffic, revPercents, revTags, latestPercent, latestTags,
                 pendingTagInputs, tagInputValue, savingTraffic, inflight,
                 attempt, notes, edits>>

VARIABLES
    \* ---- policy engine (api/envoy.ts) ----
    api,                \* the revision of api/envoy.ts the plugin is built from
    routes,             \* the server's HTTPRoutes, in list order
    policies,           \* the server's SecurityPolicies, in list order
    history,            \* the last two calls of the engine
    lookup,             \* what the last lookup returned
    calls               \* number of calls made so far

policyVars == <<api, routes, policies, history, lookup, calls>>

VARIABLES
    \* ---- forms (IpAccessSection, CreateKnativeServiceDialog) ----
    section,            \* React state of the IP access section
    dialog,             \* React state of the create-service dialog
    objects,            \* the services and secrets the dialog has created
    run,                \* what the last handler of a form did
    typed               \* number of edits of the create dialog made so far

uiVars == <<section, dialog, objects, run, typed>>

VARIABLES
    \* ---- traffic policies (api/envoy.ts) ----
    trafficPolicies,    \* the server's BackendTrafficPolicies, in list order
    retrySection        \* React state of the retry section

engineVars == <<trafficPolicies, retrySection>>

VARIABLES
    \* ---- parts modelled on their own ----
    htpasswd,           \* the calls of buildHtpasswdLine: inputs and lines
    clients,            \* two plugin instances: the request each has in flight
    secretStore,        \* the server's secrets with their data
    basicAuthSection,   \* React state of the basic auth section and its runs
    apiKeys,            \* React state of the API key section and its runs
    waiting             \* the call of waitForServiceHttpRoute in progress

sideVars == <<htpasswd, clients, secretStore, basicAuthSection, apiKeys, waiting>>

vars == <<trafficVars, policyVars, uiVars, engineVars, sideVars>>

Null == "null"

\* ------------------------------------------------------------------------
\* Bounds of the model
\* ------------------------------------------------------------------------

\* Number of user edits (typing, confirming or removing a tag, changing a
\* percent) explored from each loaded service.
MaxEdits == 2

\* Number of calls of the policy engine explored from each store.
MaxCalls == 2

\* Edits of the fields of the create dialog in one behaviour.
MaxFormEdits == 5

\* Percents are kept in units of 1/PercentUnit percent, so that the number
\* inputs can hold non-integers: 61 units is 30.5 % when PercentUnit is 2.
PercentUnit == 2

Pct(n) == n * PercentUnit

\* ------------------------------------------------------------------------
\* Values of the traffic editor
\* ------------------------------------------------------------------------

\* The `revisions` prop, in array order.
RevisionOrder == <<"revA", "revB">>

Revisions == {RevisionOrder[i] : i \in 1..Len(RevisionOrder)}

\* Key of the "latest" row in pendingTagInputs.
LatestKey == "latest"

Rows == Revisions \cup {LatestKey}

\* What a number input can hold: integers in range, out of range, and a
\* pair of non-integers that add up to 100.
WeightInputs == {Pct(0), Pct(30), Pct(70), Pct(101), 0 - Pct(1),
                 Pct(30) + 1, Pct(70) - 1}

\* Text of a tag input.
TagTexts == {"", " ", " t2"}

\* String.prototype.trim on the strings of the model.
Trim(s) == CASE s = " " -> ""
             [] s = " t2" -> "t2"
             [] OTHER -> s

Target(revisionName, latestRevision, percent, tag) ==
    [revisionName |-> revisionName, latestRevision |-> latestRevision,
     percent |-> percent, tag |-> tag]

\* Traffic lists a service can carry when the editor is mounted.  "" stands
\* for an absent revisionName or tag.
ServerTrafficSeeds ==
    { <<Target("revA", FALSE, Pct(60), ""), Target("", TRUE, Pct(40), "")>>,
      <<Target("", TRUE, Pct(100), "")>>,
      <<Target("revA", FALSE, Pct(30), ""), Target("revA", FALSE, 0, "t1"),
        Target("revB", FALSE, Pct(70), ""), Target("", TRUE, 0, "t2")>>,
      <<Target("revA", FALSE, Pct(100), "t1")>> }

\* ------------------------------------------------------------------------
\* Helpers on arrays
\* ------------------------------------------------------------------------

RECURSIVE SeqSum(_)
SeqSum(s) == IF s = <<>> THEN 0 ELSE Head(s) + SeqSum(Tail(s))

RECURSIVE Flatten(_)
Flatten(ss) == IF ss = <<>> THEN <<>> ELSE Head(ss) \o Flatten(Tail(ss))

Elems(s) == {s[i] : i \in 1..Len(s)}

\* Array.from(new Set(s)): first occurrences, in order.
RECURSIVE Unique(_)
Unique(s) ==
    IF s = <<>> THEN <<>>
    ELSE LET init == Unique(SubSeq(s, 1, Len(s) - 1))
             last == s[Len(s)]
         IN IF last \in Elems(init) THEN init ELSE Append(init, last)

\* s.map(v => v.trim()).filter(Boolean)
RECURSIVE TrimFilter(_)
TrimFilter(s) ==
    IF s = <<>> THEN <<>>
    ELSE (IF Trim(Head(s)) = "" THEN <<>> ELSE <<Trim(Head(s))>>) \o TrimFilter(Tail(s))

\* A duplicate-detecting scan with a `seen` set.
HasDuplicate(s) == \E i, j \in 1..Len(s) : i < j /\ s[i] = s[j]

\* ------------------------------------------------------------------------
\* Load: the effect that turns the server's list into editor state
\* ------------------------------------------------------------------------

\* The entries of the server list that the effect puts in the bucket of a
\* revision: not marked latestRevision, revisionName equal to the revision.
RECURSIVE RevEntries(_, _)
RevEntries(entries, rev) ==
    IF entries = <<>> THEN <<>>
    ELSE LET t == Head(entries)
         IN (IF ~t.latestRevision /\ t.revisionName = rev THEN <<t>> ELSE <<>>)
            \o RevEntries(Tail(entries), rev)

RECURSIVE LatestEntries(_)
LatestEntries(entries) ==
    IF entries = <<>> THEN <<>>
    ELSE (IF Head(entries).latestRevision THEN <<Head(entries)>> ELSE <<>>)
         \o LatestEntries(Tail(entries))

\* Sum of Number(t.percent || 0) over a bucket.
BucketPercent(bucket) == SeqSum([i \in 1..Len(bucket) |-> bucket[i].percent])

\* The bucket's Set of tags (`if (t.tag) tags.add(t.tag)`), as Array.from gives it.
RECURSIVE BucketTagList(_)
BucketTagList(bucket) ==
    IF bucket = <<>> THEN <<>>
    ELSE (IF Head(bucket).tag # "" THEN <<Head(bucket).tag>> ELSE <<>>)
         \o BucketTagList(Tail(bucket))

BucketTags(bucket) == Unique(BucketTagList(bucket))

LoadRevPercents(entries) == [r \in Revisions |-> BucketPercent(RevEntries(entries, r))]

LoadRevTags(entries) == [r \in Revisions |-> BucketTags(RevEntries(entries, r))]

LoadLatestPercent(entries) == BucketPercent(LatestEntries(entries))

LoadLatestTags(entries) == BucketTags(LatestEntries(entries))

\* ------------------------------------------------------------------------
\* The memoised validation of the rendered editor
\* ------------------------------------------------------------------------

RevPercentList(percents) == [i \in 1..Len(RevisionOrder) |-> percents[RevisionOrder[i]]]

totalTraffic(percents, lp) == SeqSum(RevPercentList(percents)) + lp

\* Every tag of every row, trimmed, empty ones dropped.
allTags(tags, ltags) ==
    Flatten([i \in 1..Len(RevisionOrder) |-> TrimFilter(tags[RevisionOrder[i]])])
    \o TrimFilter(ltags)

hasDuplicateTags(tags, ltags) == HasDuplicate(allTags(tags, ltags))

OutOfRange(val) == val < Pct(0) \/ val > Pct(100)

trafficValidationError(percents, lp, tags, ltags) ==
    IF Len(RevisionOrder) = 0 THEN "No revisions available"
    ELSE IF \E r \in Revisions : OutOfRange(percents[r])
        THEN "Traffic percentages must be between 0 and 100"
    ELSE IF OutOfRange(lp) THEN "Latest revision percent must be between 0 and 100"
    ELSE IF totalTraffic(percents, lp) # Pct(100) THEN "Total traffic must equal 100%"
    ELSE IF hasDuplicateTags(tags, ltags) THEN "Tags must be unique"
    ELSE Null

pendingTagError(pending) ==
    IF \E k \in DOMAIN pending : Trim(pending[k]) # ""
    THEN "There are unconfirmed tags. Please press Enter to confirm."
    ELSE Null

combinedValidationError ==
    IF trafficValidationError(revPercents, latestPercent, revTags, latestTags) # Null
    THEN trafficValidationError(revPercents, latestPercent, revTags, latestTags)
    ELSE pendingTagError(pendingTagInputs)

isTrafficValid == combinedValidationError = Null

\* The Save chip: disabled={!isTrafficValid || savingTraffic}.
SaveEnabled == isTrafficValid /\ ~savingTraffic

\* ------------------------------------------------------------------------
\* onSaveTraffic
\* ------------------------------------------------------------------------

\* Step 1: the confirmed tags of a row plus the trimmed text of its input.
MergeTags(base, inputText) ==
    Unique(TrimFilter(base \o (IF Trim(inputText) # "" THEN <<Trim(inputText)>> ELSE <<>>)))

mergedRevTags(tags, inputs) == [r \in Revisions |-> MergeTags(tags[r], inputs[r])]

mergedLatestTags(ltags, inputs) == MergeTags(ltags, inputs[LatestKey])

\* Step 2: the duplicate scan over the merged tags.
MergedTagList(mtags, mltags) ==
    Flatten([i \in 1..Len(RevisionOrder) |-> mtags[RevisionOrder[i]]]) \o mltags

\* A duplicate scan that looks at the confirmed chips only and misses the
\* text still in the inputs.
SaveDuplicateCheckConfirmedOnly(mtags, mltags) ==
    HasDuplicate(MergedTagList(revTags, latestTags))

SaveDuplicateCheck(mtags, mltags) == HasDuplicate(MergedTagList(mtags, mltags))

\* Step 2: the handler's own validation, on the merged view.
SaveValidationError(percents, lp, mtags, mltags) ==
    IF \E r \in Revisions : OutOfRange(percents[r])
        THEN "Traffic percentages must be between 0 and 100"
    ELSE IF OutOfRange(lp) THEN "Latest revision percent must be between 0 and 100"
    ELSE IF totalTraffic(percents, lp) # Pct(100) THEN "Total traffic must equal 100%"
    ELSE IF SaveDuplicateCheck(mtags, mltags) THEN "Tags must be unique"
    ELSE Null

\* A payload builder whose tag entries carry the row's percent instead of 0.
RowTargetsWeightedTags(revisionName, latestRevision, percent, tags) ==
    (IF percent > 0 THEN <<Target(revisionName, latestRevision, percent, "")>> ELSE <<>>)
    \o [i \in 1..Len(tags) |-> Target(revisionName, latestRevision, percent, tags[i])]

\* Step 3: the entries one row contributes to the payload.
RowTargets(revisionName, latestRevision, percent, tags) ==
    (IF percent > 0 THEN <<Target(revisionName, latestRevision, percent, "")>> ELSE <<>>)
    \o [i \in 1..Len(tags) |-> Target(revisionName, latestRevision, 0, tags[i])]

\* A payload builder that writes the untagged entry of a row whatever its
\* percent, so that a row at 0 with no tags still contributes an entry.
BuildTrafficEveryRow(percents, lp, mtags, mltags) ==
    Flatten([i \in 1..Len(RevisionOrder) |->
                <<Target(RevisionOrder[i], FALSE, percents[RevisionOrder[i]], "")>>
                \o [j \in 1..Len(mtags[RevisionOrder[i]]) |->
                       Target(RevisionOrder[i], FALSE, 0, mtags[RevisionOrder[i]][j])]])
    \o <<Target("", TRUE, lp, "")>>
    \o [j \in 1..Len(mltags) |-> Target("", TRUE, 0, mltags[j])]

BuildTraffic(percents, lp, mtags, mltags) ==
    Flatten([i \in 1..Len(RevisionOrder) |->
                RowTargets(RevisionOrder[i], FALSE, percents[RevisionOrder[i]],
                           mtags[RevisionOrder[i]])])
    \o RowTargets("", TRUE, lp, mltags)

Note(kind, text) == [kind |-> kind, text |-> text]

\* The record of one onSaveTraffic call: the editor state it read and what
\* it did with it.
Attempt(handler, outcome, sent) ==
    [handler |-> handler, outcome |-> outcome, sent |-> sent,
     percents |-> revPercents, lp |-> latestPercent,
     tags |-> revTags, ltags |-> latestTags, inputs |-> tagInputValue,
     shown |-> trafficValidationError(revPercents, latestPercent, revTags, latestTags)]

\* No save is suspended.
NoInflight == [handler |-> "none", traffic |-> <<>>, mtags |-> <<>>, mltags |-> <<>>]

\* The click on the Save chip: onSaveTraffic up to `await updateTraffic`.
onSaveTraffic ==
    /\ SaveEnabled
    /\ LET mtags == mergedRevTags(revTags, tagInputValue)
           mltags == mergedLatestTags(latestTags, tagInputValue)
           err == SaveValidationError(revPercents, latestPercent, mtags, mltags)
           list == BuildTraffic(revPercents, latestPercent, mtags, mltags)
       IN IF err # Null
          THEN /\ revTags' = mtags
               /\ latestTags' = mltags
               /\ notes' = <<Note("error", err)>>
               /\ attempt' = Attempt("current", "rejected", <<>>)
               /\ UNCHANGED <<savingTraffic, inflight>>
          ELSE /\ savingTraffic' = TRUE
               /\ inflight' = [traffic |-> list, mtags |-> mtags, mltags |-> mltags,
                               handler |-> "current"]
               /\ notes' = <<>>
               /\ attempt' = Attempt("current", "sent", list)
               /\ UNCHANGED <<revTags, latestTags>>
    /\ UNCHANGED <<traffic, revPercents, latestPercent, pendingTagInputs,
                   tagInputValue, edits>>

\* The earlier revision of the component (kept in HttpRoutesSection.tsx):
\* no tag-input tracking, the memoised validation is the only check.
isTrafficValidPorted ==
    trafficValidationError(revPercents, latestPercent, revTags, latestTags) = Null

BuildTrafficPorted(percents, lp, tags, ltags) ==
    Flatten([i \in 1..Len(RevisionOrder) |->
                RowTargets(RevisionOrder[i], FALSE, percents[RevisionOrder[i]],
                           Unique(TrimFilter(tags[RevisionOrder[i]])))])
    \o RowTargets("", TRUE, lp, Unique(TrimFilter(ltags)))

onSaveTrafficPorted ==
    /\ isTrafficValidPorted /\ ~savingTraffic
    /\ LET list == BuildTrafficPorted(revPercents, latestPercent, revTags, latestTags)
       IN IF ~isTrafficValidPorted
          THEN UNCHANGED <<savingTraffic, inflight, notes, attempt>>
          ELSE /\ savingTraffic' = TRUE
               /\ inflight' = [traffic |-> list, mtags |-> revTags, mltags |-> latestTags,
                               handler |-> "ported"]
               /\ notes' = <<>>
               /\ attempt' = Attempt("ported", "sent", list)
    /\ UNCHANGED <<traffic, revPercents, revTags, latestPercent, latestTags,
                   pendingTagInputs, tagInputValue, edits>>

\* What `await updateTraffic(...)` can come back with: the PATCH applied and
\* the response parsed; the PATCH applied and the response rejected by
\* KnativeServiceSchema.parse; the request failed.
UpdateOutcomes == {"ok", "badResponse", "failed"}

\* A write that merges by appending: the entries the server had are kept
\* and the entries sent are added after them.
updateTrafficAppending(outcome, list) == IF outcome = "failed" THEN traffic ELSE traffic \o list

\* updateTraffic: a merge patch of spec.traffic, an array, replaces it.
updateTraffic(outcome, list) == IF outcome = "failed" THEN traffic ELSE list

\* A handler that syncs the tags and clears the inputs in its finally
\* block, whether the write went through or not.
SaveResolveSyncAlways(outcome) ==
    /\ inflight.handler # "none"
    /\ traffic' = updateTraffic(outcome, inflight.traffic)
    /\ notes' = Append(notes, IF outcome = "ok" THEN Note("success", "Traffic updated")
                                ELSE Note("error", "Failed to update traffic"))
    /\ revTags' = inflight.mtags
    /\ latestTags' = inflight.mltags
    /\ tagInputValue' = [k \in Rows |-> ""]
    /\ savingTraffic' = FALSE
    /\ inflight' = NoInflight
    /\ UNCHANGED <<revPercents, latestPercent, pendingTagInputs, attempt, edits>>

\* onSaveTraffic from the await on: step 4, catch and finally.
SaveResolve(outcome) ==
    /\ inflight.handler # "none"
    /\ traffic' = updateTraffic(outcome, inflight.traffic)
    /\ IF outcome = "ok"
       THEN /\ notes' = Append(notes, Note("success", "Traffic updated"))
            /\ IF inflight.handler = "current"
               THEN /\ revTags' = inflight.mtags
                    /\ latestTags' = inflight.mltags
                    /\ tagInputValue' = [k \in Rows |-> ""]
               ELSE UNCHANGED <<revTags, latestTags, tagInputValue>>
       ELSE /\ notes' = Append(notes, Note("error", "Failed to update traffic"))
            /\ UNCHANGED <<revTags, latestTags, tagInputValue>>
    /\ savingTraffic' = FALSE
    /\ inflight' = NoInflight
    /\ UNCHANGED <<revPercents, latestPercent, pendingTagInputs, attempt, edits>>

\* ------------------------------------------------------------------------
\* The editor's inputs
\* ------------------------------------------------------------------------

\* The effect on [service, revisions]: a re-fetched service resets the
\* editor to the server's list.
LoadEffect ==
    /\ revPercents' = LoadRevPercents(traffic)
    /\ revTags' = LoadRevTags(traffic)
    /\ latestPercent' = LoadLatestPercent(traffic)
    /\ latestTags' = LoadLatestTags(traffic)
    /\ UNCHANGED <<traffic, pendingTagInputs, tagInputValue, savingTraffic, inflight,
                   attempt, notes, edits>>

\* onChange of a revision's number input.
SetRevPercent(r, w) ==
    /\ edits < MaxEdits
    /\ edits' = edits + 1
    /\ revPercents' = [revPercents EXCEPT ![r] = w]
    /\ UNCHANGED <<traffic, revTags, latestPercent, latestTags, pendingTagInputs,
                   tagInputValue, savingTraffic, inflight, attempt, notes>>

\* onChange of the "latest" row's number input.
SetLatestPercent(w) ==
    /\ edits < MaxEdits
    /\ edits' = edits + 1
    /\ latestPercent' = w
    /\ UNCHANGED <<traffic, revPercents, revTags, latestTags, pendingTagInputs,
                   tagInputValue, savingTraffic, inflight, attempt, notes>>

\* onChange of a row's tag text field: the typed text is mirrored into
\* pendingTagInputs.
TagInputChange(k, text) ==
    /\ edits < MaxEdits
    /\ edits' = edits + 1
    /\ tagInputValue' = [tagInputValue EXCEPT ![k] = text]
    /\ pendingTagInputs' = [pendingTagInputs EXCEPT ![k] = text]
    /\ UNCHANGED <<traffic, revPercents, revTags, latestPercent, latestTags,
                   savingTraffic, inflight, attempt, notes>>

RowTags(k) == IF k = LatestKey THEN latestTags ELSE revTags[k]

\* onChange of a row's Autocomplete with the new list of chips.
SetRowTags(k, newValue) ==
    /\ pendingTagInputs' = [pendingTagInputs EXCEPT ![k] = ""]
    /\ IF k = LatestKey
       THEN latestTags' = Unique(TrimFilter(newValue)) /\ UNCHANGED revTags
       ELSE revTags' = [revTags EXCEPT ![k] = Unique(TrimFilter(newValue))]
            /\ UNCHANGED latestTags

\* Enter in a row's tag input: the widget appends the typed text to the
\* chips, calls onChange and empties the input.
ConfirmTag(k) ==
    /\ edits < MaxEdits
    /\ tagInputValue[k] # ""
    /\ edits' = edits + 1
    /\ SetRowTags(k, Append(RowTags(k), tagInputValue[k]))
    /\ tagInputValue' = [tagInputValue EXCEPT ![k] = ""]
    /\ UNCHANGED <<traffic, revPercents, latestPercent, savingTraffic, inflight,
                   attempt, notes>>

RemoveAt(s, i) == SubSeq(s, 1, i - 1) \o SubSeq(s, i + 1, Len(s))

\* Deleting a chip: the widget calls onChange without it and leaves the
\* text of the input as it is.
RemoveTag(k, i) ==
    /\ edits < MaxEdits
    /\ i \in 1..Len(RowTags(k))
    /\ edits' = edits + 1
    /\ SetRowTags(k, RemoveAt(RowTags(k), i))
    /\ UNCHANGED <<traffic, revPercents, latestPercent, tagInputValue, savingTraffic,
                   inflight, attempt, notes>>

\* ------------------------------------------------------------------------
\* Values of the policy engine (api/envoy.ts)
\* ------------------------------------------------------------------------

\* The revisions of api/envoy.ts a plugin is built from: the envoy-gateway
\* plugin's current one, the knative plugin's one, and the envoy-gateway
\* plugin's earlier one.
ApiRevisions == {"gateway", "knative", "legacy"}

\* Strings that are parsed are kept as sequences of characters.
CidrTen == <<"1", "0", ".", "0", ".", "0", ".", "0", "/", "8">>

CidrLan == <<"1", "9", "2", ".", "1", "6", "8", ".", "0", ".", "0", "/", "1", "6">>

\* Names of resources, in the order the server lists them.
NameOrder ==
    <<"a-policy", "a-route", "api.example.com", "other-route", "other-route-apikey-auth",
      "other-route-basic-auth", "z-policy">>

NameRank(n) == CHOOSE i \in 1..Len(NameOrder) : NameOrder[i] = n

\* A key of a JSON object: absent, null (in a merge patch) or a value.
Absent == [op |-> "absent", val |-> <<>>]

Clear == [op |-> "null", val |-> <<>>]

Present(v) == [op |-> "set", val |-> v]

\* `field ?? []`
FieldVal(f) == IF f.op = "set" THEN f.val ELSE <<>>

GatewayGroup == "gateway.networking.k8s.io"

TargetRef(group, kind, name) == [group |-> group, kind |-> kind, name |-> name]

RouteRef(name) == TargetRef(GatewayGroup, "HTTPRoute", name)

Route(name, hostnames, uid) == [name |-> name, hostnames |-> hostnames, uid |-> uid]

\* A SecurityPolicy, as stored and as the body of a request.  basicAuth
\* holds <<users.name>>, authorization holds its rules.
Policy(name, targetRefs, authorization, basicAuth, ownerReferences) ==
    [name |-> name, targetRefs |-> targetRefs, authorization |-> authorization,
     basicAuth |-> basicAuth, ownerReferences |-> ownerReferences]

NoBody == Policy("", Absent, Absent, Absent, Absent)

Rule(name, matcher, cidrs, action) ==
    [name |-> name, matcher |-> matcher, cidrs |-> cidrs, action |-> action]

Request(method, kind, name, body, status) ==
    [method |-> method, kind |-> kind, name |-> name, body |-> body, status |-> status]

\* ------------------------------------------------------------------------
\* The API server
\* ------------------------------------------------------------------------

\* items.find(test), given the outcome of the test on each item: the index
\* of the first match, 0 when there is none.
FirstIndex(tests) ==
    IF \E i \in 1..Len(tests) : tests[i]
    THEN CHOOSE i \in 1..Len(tests) : tests[i] /\ \A j \in 1..(i - 1) : ~tests[j]
    ELSE 0

IndexOfName(items, name) == FirstIndex([i \in 1..Len(items) |-> items[i].name = name])

\* A created resource takes its place in the name order of the list.
InsertSorted(items, p) ==
    LET before == SelectSeq(items, LAMBDA x : NameRank(x.name) < NameRank(p.name))
        after == SelectSeq(items, LAMBDA x : NameRank(x.name) > NameRank(p.name))
    IN before \o <<p>> \o after

\* A merge that adds the entries of an array to the stored ones instead
\* of replacing the array.
MergePatchFieldAppending(stored, patch) ==
    CASE patch.op = "absent" -> stored
      [] patch.op = "null" -> Absent
      [] stored.op = "set" -> Present(stored.val \o patch.val)
      [] OTHER -> patch

\* RFC 7396 on one key: null removes it, an absent key leaves it, a value
\* replaces it (the values of the model are arrays and one-key objects).
MergePatchField(stored, patch) ==
    CASE patch.op = "absent" -> stored
      [] patch.op = "null" -> Absent
      [] OTHER -> patch

MergePatch(p, body) ==
    Policy(p.name,
           MergePatchField(p.targetRefs, body.targetRefs),
           MergePatchField(p.authorization, body.authorization),
           MergePatchField(p.basicAuth, body.basicAuth),
           MergePatchField(p.ownerReferences, body.ownerReferences))

\* POST answers 409 when the name is taken.
PostConflicts(items, body) == IndexOfName(items, body.name) # 0

ServerPost(items, body) ==
    IF PostConflicts(items, body) THEN items ELSE InsertSorted(items, body)

ServerPatch(items, name, body) ==
    [i \in 1..Len(items) |->
        IF items[i].name = name THEN MergePatch(items[i], body) ELSE items[i]]

\* What can go wrong in one call: nothing, the list of policies fails, the
\* fetch of the route fails, the write is refused, the write is applied
\* and its answer (or the re-fetch after it) is lost or rejected.
Faults == {"none", "list", "route", "write", "response"}

\* ------------------------------------------------------------------------
\* The locator
\* ------------------------------------------------------------------------

\* What a function hands to its caller.
Returned(v) == [threw |-> FALSE, value |-> v]

Thrown == [threw |-> TRUE, value |-> Null]

\* getHttpRoute: the route of that name, null on any failure.
getHttpRoute(rts, getOk, name) ==
    IF getOk /\ IndexOfName(rts, name) # 0 THEN Returned(name) ELSE Returned(Null)

\* A fallback that looks for the name before the hostnames.
getHttpRouteForHostNameFirst(rts, getOk, listOk, host) ==
    IF getOk /\ IndexOfName(rts, host) # 0 THEN Returned(host)
    ELSE IF ~listOk THEN Returned(Null)
    ELSE LET byHost == FirstIndex([i \in 1..Len(rts) |-> host \in rts[i].hostnames])
             byName == FirstIndex([i \in 1..Len(rts) |-> rts[i].name = host])
         IN IF byName # 0 THEN Returned(rts[byName].name)
            ELSE IF byHost # 0 THEN Returned(rts[byHost].name)
            ELSE Returned(Null)

\* getHttpRouteForHost: the direct fetch by name, then the list.
getHttpRouteForHost(rts, getOk, listOk, host) ==
    IF getOk /\ IndexOfName(rts, host) # 0 THEN Returned(host)
    ELSE IF ~listOk THEN Returned(Null)
    ELSE LET byHost == FirstIndex([i \in 1..Len(rts) |-> host \in rts[i].hostnames])
             byName == FirstIndex([i \in 1..Len(rts) |-> rts[i].name = host])
         IN IF byHost # 0 THEN Returned(rts[byHost].name)
            ELSE IF byName # 0 THEN Returned(rts[byName].name)
            ELSE Returned(Null)

\* A match on the name of the target alone.
TargetsRouteByName(p, httpRouteName) ==
    \E i \in 1..Len(FieldVal(p.targetRefs)) :
        FieldVal(p.targetRefs)[i].name = httpRouteName

\* (sp.spec?.targetRefs ?? []).some(...)
TargetsRoute(p, httpRouteName) ==
    \E i \in 1..Len(FieldVal(p.targetRefs)) :
        /\ FieldVal(p.targetRefs)[i].group = GatewayGroup
        /\ FieldVal(p.targetRefs)[i].kind = "HTTPRoute"
        /\ FieldVal(p.targetRefs)[i].name = httpRouteName

\* A lookup that lets the failure of the list call through.
findSecurityPolicyUncaught(items, listOk, httpRouteName) ==
    IF ~listOk THEN Thrown
    ELSE LET i == FirstIndex([k \in 1..Len(items) |->
                                  TargetsRoute(items[k], httpRouteName)])
         IN Returned(IF i = 0 THEN Null ELSE items[i].name)

findSecurityPolicyForHTTPRoute(items, listOk, httpRouteName) ==
    IF ~listOk THEN Returned(Null)
    ELSE LET i == FirstIndex([k \in 1..Len(items) |->
                                  TargetsRoute(items[k], httpRouteName)])
         IN Returned(IF i = 0 THEN Null ELSE items[i].name)

\* buildHttpRouteOwnerRef: the owner reference of a new policy, none when
\* the route cannot be fetched.
buildHttpRouteOwnerRef(rts, getOk, httpRouteName) ==
    IF getHttpRoute(rts, getOk, httpRouteName).value = Null THEN Absent
    ELSE Present(<<[kind |-> "HTTPRoute", name |-> httpRouteName,
                    uid |-> rts[IndexOfName(rts, httpRouteName)].uid]>>)

\* ------------------------------------------------------------------------
\* The authorization rule builder
\* ------------------------------------------------------------------------

\* The rules of the two lists, Allow first; `matcher` is the key the CIDRs
\* are written under.
AuthorizationRuleList(matcher, allowCidrs, denyCidrs) ==
    (IF Len(allowCidrs) > 0
     THEN <<Rule("allow-source-ips", matcher, allowCidrs, "Allow")>> ELSE <<>>)
    \o (IF Len(denyCidrs) > 0
        THEN <<Rule("deny-source-ips", matcher, denyCidrs, "Deny")>> ELSE <<>>)

\* knative plugin.
buildAuthorizationRuleList(allowCidrs, denyCidrs) ==
    AuthorizationRuleList("principal.clientCIDRs", allowCidrs, denyCidrs)

buildAuthorizationRulesForPatch(allowCidrs, denyCidrs) ==
    LET rules == buildAuthorizationRuleList(allowCidrs, denyCidrs)
    IN IF Len(rules) = 0 THEN Clear ELSE Present(rules)

buildAuthorizationRulesForSpec(allowCidrs, denyCidrs) ==
    LET rules == buildAuthorizationRuleList(allowCidrs, denyCidrs)
    IN IF Len(rules) = 0 THEN Absent ELSE Present(rules)

\* envoy-gateway plugin: the `authorization` key of the object it returns.
buildAuthorizationRules(allowCidrs, denyCidrs, forPatch) ==
    LET rules == AuthorizationRuleList("principal.clientCIDRs", allowCidrs, denyCidrs)
    IN IF Len(rules) = 0 THEN (IF forPatch THEN Clear ELSE Absent) ELSE Present(rules)

\* envoy-gateway plugin, earlier revision: no forPatch, no empty case.
buildAuthorizationRulesLegacy(allowCidrs, denyCidrs) ==
    Present(AuthorizationRuleList("match.sourceIPs", allowCidrs, denyCidrs))

\* The builder a revision of the file calls for a patch or a creation.
AuthorizationOf(rev, allowCidrs, denyCidrs, forPatch) ==
    CASE rev = "gateway" -> buildAuthorizationRules(allowCidrs, denyCidrs, forPatch)
      [] rev = "knative" -> IF forPatch
                            THEN buildAuthorizationRulesForPatch(allowCidrs, denyCidrs)
                            ELSE buildAuthorizationRulesForSpec(allowCidrs, denyCidrs)
      [] OTHER -> buildAuthorizationRulesLegacy(allowCidrs, denyCidrs)

\* ------------------------------------------------------------------------
\* The upsert engine
\* ------------------------------------------------------------------------

\* What a call leaves behind: the store, the requests it issued in order,
\* and what its caller gets.
Outcome(items, requests, result) ==
    [policies |-> items, requests |-> requests, threw |-> result.threw,
     value |-> result.value]

Status(ok) == IF ok THEN "ok" ELSE "failed"

ListPoliciesRequest(fault) ==
    Request("GET", "securitypolicies", "", NoBody, Status(fault # "list"))

GetRouteRequest(rts, fault, name) ==
    Request("GET", "httproutes", name, NoBody,
            Status(fault # "route" /\ IndexOfName(rts, name) # 0))

\* PATCH of `patch` to the policy `name`, then the re-fetch.
PatchThenGet(items, lookups, name, patch, fault) ==
    IF fault = "write" \/ IndexOfName(items, name) = 0
    THEN Outcome(items,
                 lookups \o <<Request("PATCH", "securitypolicies", name, patch, "failed")>>,
                 Thrown)
    ELSE IF fault = "response"
    THEN Outcome(ServerPatch(items, name, patch),
                 lookups \o <<Request("PATCH", "securitypolicies", name, patch, "ok"),
                              Request("GET", "securitypolicies", name, NoBody, "failed")>>,
                 Thrown)
    ELSE Outcome(ServerPatch(items, name, patch),
                 lookups \o <<Request("PATCH", "securitypolicies", name, patch, "ok"),
                              Request("GET", "securitypolicies", name, NoBody, "ok")>>,
                 Returned(name))

\* A POST that answers a failure with a result instead of raising it.
PostPolicyFailureResult(items, lookups, body, fault) ==
    IF fault = "write" \/ PostConflicts(items, body)
    THEN Outcome(items,
                 lookups \o <<Request("POST", "securitypolicies", "", body, "failed")>>,
                 Returned("failure"))
    ELSE Outcome(ServerPost(items, body),
                 lookups \o <<Request("POST", "securitypolicies", "", body, "ok")>>,
                 IF fault = "response" THEN Returned("failure") ELSE Returned(body.name))

\* POST of `body`.
PostPolicy(items, lookups, body, fault) ==
    IF fault = "write" \/ PostConflicts(items, body)
    THEN Outcome(items,
                 lookups \o <<Request("POST", "securitypolicies", "", body, "failed")>>,
                 Thrown)
    ELSE Outcome(ServerPost(items, body),
                 lookups \o <<Request("POST", "securitypolicies", "", body, "ok")>>,
                 IF fault = "response" THEN Thrown ELSE Returned(body.name))

\* An upsert that skips the lookup and always creates.
UpsertPolicyAlwaysCreate(items, rts, policyName, httpRouteName, patch, spec, fault) ==
    PostPolicy(items,
               <<ListPoliciesRequest(fault), GetRouteRequest(rts, fault, httpRouteName)>>,
               Policy(policyName, Present(<<RouteRef(httpRouteName)>>),
                      spec.authorization, spec.basicAuth,
                      buildHttpRouteOwnerRef(rts, fault # "route", httpRouteName)),
               fault)

\* The upsert of one sub-field: `patch` if a policy targets the route,
\* else the creation of `spec` under policyName.
UpsertPolicy(items, rts, policyName, httpRouteName, patch, spec, fault) ==
    LET existing == findSecurityPolicyForHTTPRoute(items, fault # "list", httpRouteName).value
    IN IF existing # Null
       THEN PatchThenGet(items, <<ListPoliciesRequest(fault)>>, existing, patch, fault)
       ELSE PostPolicy(items,
                       <<ListPoliciesRequest(fault), GetRouteRequest(rts, fault, httpRouteName)>>,
                       Policy(policyName, Present(<<RouteRef(httpRouteName)>>),
                              spec.authorization, spec.basicAuth,
                              buildHttpRouteOwnerRef(rts, fault # "route", httpRouteName)),
                       fault)

\* The earlier revision: always a creation, no owner reference.
CreatePolicyLegacy(items, policyName, httpRouteName, spec, fault) ==
    PostPolicy(items, <<>>,
               Policy(policyName, Present(<<RouteRef(httpRouteName)>>),
                      spec.authorization, spec.basicAuth, Absent),
               fault)

\* A body that carries the authorization block and nulls its sibling.
AuthorizationClearingSiblings(f) == Policy("", Absent, f, Clear, Absent)

\* The body of a patch or the spec of a creation that carries one sub-field.
OnlyAuthorization(f) == Policy("", Absent, f, Absent, Absent)

OnlyBasicAuth(f) == Policy("", Absent, Absent, f, Absent)

createIpAccessSecurityPolicy(rev, items, rts, policyName, httpRouteName, allowCidrs, denyCidrs, fault) ==
    IF rev = "legacy"
    THEN CreatePolicyLegacy(items, policyName, httpRouteName,
             OnlyAuthorization(AuthorizationOf(rev, allowCidrs, denyCidrs, FALSE)), fault)
    ELSE UpsertPolicy(items, rts, policyName, httpRouteName,
             OnlyAuthorization(AuthorizationOf(rev, allowCidrs, denyCidrs, TRUE)),
             OnlyAuthorization(AuthorizationOf(rev, allowCidrs, denyCidrs, FALSE)), fault)

createSecurityPolicyForHTTPRoute(rev, items, rts, policyName, httpRouteName, secretName, fault) ==
    IF rev = "legacy"
    THEN CreatePolicyLegacy(items, policyName, httpRouteName,
             OnlyBasicAuth(Present(<<secretName>>)), fault)
    ELSE UpsertPolicy(items, rts, policyName, httpRouteName,
             OnlyBasicAuth(Present(<<secretName>>)),
             OnlyBasicAuth(Present(<<secretName>>)), fault)

\* updateIpAccessSecurityPolicy: one PATCH of the authorization block.  The
\* current revision answers with an ApiResult, the earlier one throws.
updateIpAccessSecurityPolicy(rev, items, policyName, allowCidrs, denyCidrs, fault) ==
    LET patch == OnlyAuthorization(AuthorizationOf(rev, allowCidrs, denyCidrs, TRUE))
        ok == fault # "write" /\ IndexOfName(items, policyName) # 0
        req == Request("PATCH", "securitypolicies", policyName, patch, Status(ok))
    IN IF ok
       THEN Outcome(ServerPatch(items, policyName, patch), <<req>>,
                    IF fault = "response"
                    THEN (IF rev = "legacy" THEN Thrown ELSE Returned("failure"))
                    ELSE Returned("success"))
       ELSE Outcome(items, <<req>>,
                    IF rev = "legacy" THEN Thrown ELSE Returned("failure"))

NoAttempt ==
    [handler |-> "none", outcome |-> "none", sent |-> <<>>,
     percents |-> <<>>, lp |-> 0, tags |-> <<>>, ltags |-> <<>>, inputs |-> <<>>,
     shown |-> Null]

\* ------------------------------------------------------------------------
\* Status detection
\* ------------------------------------------------------------------------

\* rules.filter(action).flatMap(CIDRs under the revision's key).filter(Boolean)
RuleCidrs(rules, matcher, action) ==
    Flatten([i \in 1..Len(rules) |->
                IF rules[i].action = action /\ rules[i].matcher = matcher
                THEN rules[i].cidrs ELSE <<>>])

MatcherOf(rev) == IF rev = "legacy" THEN "match.sourceIPs" ELSE "principal.clientCIDRs"

\* The policy detectIpAccessConfig reads the rules from: the current
\* revision lists the policies itself and prefers one that has rules, the
\* earlier one takes what findSecurityPolicyForHTTPRoute finds.
IpAccessPolicyFor(rev, items, listOk, httpRouteName) ==
    IF rev = "legacy" THEN findSecurityPolicyForHTTPRoute(items, listOk, httpRouteName)
    ELSE IF ~listOk THEN Returned(Null)
    ELSE LET i == FirstIndex([k \in 1..Len(items) |->
                                  /\ TargetsRoute(items[k], httpRouteName)
                                  /\ Len(FieldVal(items[k].authorization)) > 0])
         IN Returned(IF i = 0 THEN Null ELSE items[i].name)

Detected(fn, host, httpRoute, securityPolicy, allowCidrs, denyCidrs, secretName, threw) ==
    [fn |-> fn, host |-> host, httpRoute |-> httpRoute, securityPolicy |-> securityPolicy,
     allowCidrs |-> allowCidrs, denyCidrs |-> denyCidrs, secretName |-> secretName,
     threw |-> threw]

detectIpAccessConfig(rev, rts, items, host, getOk, listOk, policiesOk) ==
    LET httpRoute == getHttpRouteForHost(rts, getOk, listOk, host).value
        sp == IpAccessPolicyFor(rev, items, policiesOk, httpRoute).value
        rules == IF sp = Null THEN <<>>
                 ELSE FieldVal(items[IndexOfName(items, sp)].authorization)
    IN IF httpRoute = Null
       THEN Detected("detectIpAccessConfig", host, Null, Null, <<>>, <<>>, Null, FALSE)
       ELSE Detected("detectIpAccessConfig", host, httpRoute, sp,
                     RuleCidrs(rules, MatcherOf(rev), "Allow"),
                     RuleCidrs(rules, MatcherOf(rev), "Deny"), Null, FALSE)

detectBasicAuthConfig(rts, items, host, getOk, listOk, policiesOk) ==
    LET httpRoute == getHttpRouteForHost(rts, getOk, listOk, host).value
        sp == findSecurityPolicyForHTTPRoute(items, policiesOk, httpRoute).value
        users == IF sp = Null THEN <<>>
                 ELSE FieldVal(items[IndexOfName(items, sp)].basicAuth)
    IN IF httpRoute = Null
       THEN Detected("detectBasicAuthConfig", host, Null, Null, <<>>, <<>>, Null, FALSE)
       ELSE Detected("detectBasicAuthConfig", host, httpRoute, sp, <<>>, <<>>,
                     IF Len(users) = 0 THEN Null ELSE users[1], FALSE)

NoLookup ==
    [result |-> Detected("none", "", Null, Null, <<>>, <<>>, Null, FALSE),
     getOk |-> TRUE, listOk |-> TRUE, policiesOk |-> TRUE]

\* ------------------------------------------------------------------------
\* Traffic policies, the credential secret and the disable operations
\* ------------------------------------------------------------------------

\* A BackendTrafficPolicy, as stored and as the body of a request.  retry
\* holds <<the retry block>>.
TrafficPolicy(name, targetRefs, retry, ownerReferences) ==
    [name |-> name, targetRefs |-> targetRefs, retry |-> retry,
     ownerReferences |-> ownerReferences]

\* The parameters of the retry functions the model varies.
RetryParams(numRetries, baseInterval) ==
    [numRetries |-> numRetries, baseInterval |-> baseInterval]

\* spec.retry of a body: `params.baseInterval || '100ms'`.
RetryBlock(params) ==
    [numRetries |-> params.numRetries,
     baseInterval |-> IF params.baseInterval = "" THEN "100ms" ELSE params.baseInterval]

OnlyRetry(f) == TrafficPolicy("", Absent, f, Absent)

MergePatchTraffic(p, body) ==
    TrafficPolicy(p.name,
                  MergePatchField(p.targetRefs, body.targetRefs),
                  MergePatchField(p.retry, body.retry),
                  MergePatchField(p.ownerReferences, body.ownerReferences))

ServerPatchTraffic(items, name, body) ==
    [i \in 1..Len(items) |->
        IF items[i].name = name THEN MergePatchTraffic(items[i], body) ELSE items[i]]

\* DELETE removes the resource of that name.
ServerDelete(items, name) == SelectSeq(items, LAMBDA x : x.name # name)

\* findBackendTrafficPolicyForHTTPRoute: the first policy of the list that
\* targets the route, null when the list call fails.
findBackendTrafficPolicyForHTTPRoute(items, listOk, httpRouteName) ==
    IF ~listOk THEN Returned(Null)
    ELSE LET i == FirstIndex([k \in 1..Len(items) |->
                                  TargetsRoute(items[k], httpRouteName)])
         IN Returned(IF i = 0 THEN Null ELSE items[i].name)

\* createRetryBackendTrafficPolicy: the owner reference (current revision
\* only), then a POST; the parsed answer, or the error of the request.
createRetryBackendTrafficPolicy(rev, items, rts, policyName, httpRouteName, params, fault) ==
    LET ownerRef == IF rev = "legacy" THEN Absent
                    ELSE buildHttpRouteOwnerRef(rts, fault # "route", httpRouteName)
        lookups == IF rev = "legacy" THEN <<>>
                   ELSE <<GetRouteRequest(rts, fault, httpRouteName)>>
        body == TrafficPolicy(policyName, Present(<<RouteRef(httpRouteName)>>),
                              Present(<<RetryBlock(params)>>), ownerRef)
        ok == fault # "write" /\ IndexOfName(items, body.name) = 0
    IN Outcome(IF ok THEN InsertSorted(items, body) ELSE items,
               lookups \o <<Request("POST", "backendtrafficpolicies", "", body, Status(ok))>>,
               IF ok /\ fault # "response" THEN Returned(body.name) ELSE Thrown)

\* What a function that answers with an ApiResult hands to its caller:
\* { isSuccess: true } or { isSuccess: false, errorMessage }.
ApiSuccess == Returned("success")

ApiFailure == Returned("failure")

\* updateRetryBackendTrafficPolicy: one PATCH of spec.retry.  The current
\* revision answers with an ApiResult, the earlier one throws.
updateRetryBackendTrafficPolicy(rev, items, policyName, params, fault) ==
    LET patch == OnlyRetry(Present(<<RetryBlock(params)>>))
        ok == fault # "write" /\ IndexOfName(items, policyName) # 0
        failure == IF rev = "legacy" THEN Thrown ELSE ApiFailure
    IN Outcome(IF ok THEN ServerPatchTraffic(items, policyName, patch) ELSE items,
               <<Request("PATCH", "backendtrafficpolicies", policyName, patch, Status(ok))>>,
               IF ok /\ fault # "response" THEN ApiSuccess ELSE failure)

\* deleteRetryBackendTrafficPolicy: one DELETE of the policy.
deleteRetryBackendTrafficPolicy(items, policyName, fault) ==
    LET ok == fault # "write" /\ IndexOfName(items, policyName) # 0
    IN Outcome(IF ok THEN ServerDelete(items, policyName) ELSE items,
               <<Request("DELETE", "backendtrafficpolicies", policyName, NoBody, Status(ok))>>,
               IF ok /\ fault # "response" THEN ApiSuccess ELSE ApiFailure)

\* A disable of basic auth that deletes the policy it finds.
deleteSecurityPolicyForHTTPRoute(items, httpRouteName, fault) ==
    LET existing == findSecurityPolicyForHTTPRoute(items, fault # "list", httpRouteName).value
        ok == fault # "write"
    IN IF existing = Null THEN Outcome(items, <<ListPoliciesRequest(fault)>>, ApiSuccess)
       ELSE Outcome(IF ok THEN ServerDelete(items, existing) ELSE items,
                    <<ListPoliciesRequest(fault),
                      Request("DELETE", "securitypolicies", existing, NoBody, Status(ok))>>,
                    IF ok /\ fault # "response" THEN ApiSuccess ELSE ApiFailure)

\* disableBasicAuthForHTTPRoute: nothing to do when no policy targets the
\* route, else one PATCH with basicAuth: null.
disableBasicAuthForHTTPRoute(items, httpRouteName, fault) ==
    LET existing == findSecurityPolicyForHTTPRoute(items, fault # "list", httpRouteName).value
        patch == OnlyBasicAuth(Clear)
        ok == fault # "write"
    IN IF existing = Null THEN Outcome(items, <<ListPoliciesRequest(fault)>>, ApiSuccess)
       ELSE Outcome(IF ok THEN ServerPatch(items, existing, patch) ELSE items,
                    <<ListPoliciesRequest(fault),
                      Request("PATCH", "securitypolicies", existing, patch, Status(ok))>>,
                    IF ok /\ fault # "response" THEN ApiSuccess ELSE ApiFailure)

\* disableIpAccessSecurityPolicy: one PATCH with authorization: null.
disableIpAccessSecurityPolicy(items, policyName, fault) ==
    LET patch == OnlyAuthorization(Clear)
        ok == fault # "write" /\ IndexOfName(items, policyName) # 0
    IN Outcome(IF ok THEN ServerPatch(items, policyName, patch) ELSE items,
               <<Request("PATCH", "securitypolicies", policyName, patch, Status(ok))>>,
               IF ok /\ fault # "response" THEN ApiSuccess ELSE ApiFailure)

\* A service or secret of the store.
Object(kind, name) == [kind |-> kind, name |-> name]

\* The metadata of the body that creates a secret.
SecretBody(name, ownerReferences) == [name |-> name, ownerReferences |-> ownerReferences]

\* getSecret: the secret of that name, null on any failure.
getSecret(objs, getOk, name) ==
    IF getOk /\ Object("secrets", name) \in objs THEN Returned(name) ELSE Returned(Null)

\* upsertBasicAuthSecret: a POST when getSecret finds nothing (with the
\* owner reference of the route in the later revisions), else a PATCH of
\* the payload.  The current revision of the envoy-gateway plugin answers
\* with an ApiResult, the other two throw.
upsertBasicAuthSecret(rev, objs, rts, name, ownerHttpRouteName, fault) ==
    LET existing == getSecret(objs, fault # "list", name).value
        read == Request("GET", "secrets", name, NoBody, Status(existing # Null))
        lookups == IF rev = "legacy" THEN <<read>>
                   ELSE <<read, GetRouteRequest(rts, fault, ownerHttpRouteName)>>
        failure == IF rev = "gateway" THEN ApiFailure ELSE Thrown
        success == IF rev = "gateway" THEN ApiSuccess ELSE Returned(Null)
        posted == fault # "write" /\ Object("secrets", name) \notin objs
        ownerRef == IF rev = "legacy" THEN Absent
                    ELSE buildHttpRouteOwnerRef(rts, fault # "route", ownerHttpRouteName)
    IN IF existing # Null
       THEN Outcome(objs,
                    <<read, Request("PATCH", "secrets", name, NoBody, Status(fault # "write"))>>,
                    IF fault \in {"write", "response"} THEN failure ELSE success)
       ELSE Outcome(IF posted THEN objs \cup {Object("secrets", name)} ELSE objs,
                    lookups \o <<Request("POST", "secrets", name, SecretBody(name, ownerRef),
                                         Status(posted))>>,
                    IF posted /\ fault # "response" THEN success ELSE failure)

\* ------------------------------------------------------------------------
\* Calls of the engine
\* ------------------------------------------------------------------------

\* The record of one call: its arguments, the store it started from and
\* what it left behind.
Call(fn, httpRouteName, policyName, allowCidrs, denyCidrs, fault, out) ==
    [fn |-> fn, httpRouteName |-> httpRouteName, policyName |-> policyName,
     allowCidrs |-> allowCidrs, denyCidrs |-> denyCidrs, fault |-> fault,
     before |-> policies, requests |-> out.requests, threw |-> out.threw,
     value |-> out.value]

\* The last two calls are remembered.
Remember(call) == IF Len(history) < 2 THEN Append(history, call) ELSE <<history[2], call>>

Finish(call, out) ==
    /\ calls < MaxCalls
    /\ calls' = calls + 1
    /\ policies' = out.policies
    /\ history' = Remember(call)
    /\ UNCHANGED <<api, routes, lookup>>

\* The routes the plugins act on, the CIDR lists of a form and the secret
\* of a route's basic auth.
RouteArgs == {"a-route", "other-route"}

CidrListPairs == { <<<<>>, <<>>>>, <<<<CidrTen>>, <<CidrLan>>>> }

\* The lists of an edit: emptied, or cut down to an allow list.
EditedListPairs == { <<<<>>, <<>>>>, <<<<CidrTen>>, <<>>>> }

SecretNameOf(httpRouteName) ==
    IF httpRouteName = "a-route" THEN "a-route-basic-auth" ELSE "other-route-basic-auth"

\* Both callers pass the route's name as the policy's name.
CallCreateIpAccess(httpRouteName, lists, fault) ==
    LET out == createIpAccessSecurityPolicy(api, policies, routes, httpRouteName,
                                            httpRouteName, lists[1], lists[2], fault)
    IN Finish(Call("createIpAccessSecurityPolicy", httpRouteName, httpRouteName,
                   lists[1], lists[2], fault, out), out)

CallCreateBasicAuth(httpRouteName, fault) ==
    LET out == createSecurityPolicyForHTTPRoute(api, policies, routes, httpRouteName,
                                                httpRouteName, SecretNameOf(httpRouteName),
                                                fault)
    IN Finish(Call("createSecurityPolicyForHTTPRoute", httpRouteName, httpRouteName,
                   <<>>, <<>>, fault, out), out)

\* The policy name comes from an earlier detection: a policy of the store.
CallUpdateIpAccess(i, lists, fault) ==
    /\ i \in 1..Len(policies)
    /\ fault \in {"none", "write", "response"}
    /\ LET out == updateIpAccessSecurityPolicy(api, policies, policies[i].name,
                                               lists[1], lists[2], fault)
       IN Finish(Call("updateIpAccessSecurityPolicy", "", policies[i].name,
                      lists[1], lists[2], fault, out), out)

\* ---- calls on the traffic policies, the secrets and the disable helpers ----

FinishTraffic(call, out) ==
    /\ calls < MaxCalls
    /\ calls' = calls + 1
    /\ trafficPolicies' = out.policies
    /\ history' = Remember(call)
    /\ UNCHANGED <<api, routes, policies, lookup, objects>>

FinishSecret(call, out) ==
    /\ calls < MaxCalls
    /\ calls' = calls + 1
    /\ objects' = out.policies
    /\ history' = Remember(call)
    /\ UNCHANGED <<api, routes, policies, lookup, trafficPolicies>>

FinishPolicy(call, out) == Finish(call, out) /\ UNCHANGED <<trafficPolicies, objects>>

\* The retry settings of a form.
RetryArgs == {RetryParams(3, ""), RetryParams(5, "200ms")}

\* RetrySection passes the route's name as the policy's name.
CallCreateRetry(httpRouteName, params, fault) ==
    /\ api \in {"gateway", "legacy"}
    /\ fault \in {"none", "route", "write", "response"}
    /\ LET out == createRetryBackendTrafficPolicy(api, trafficPolicies, routes, httpRouteName,
                                                  httpRouteName, params, fault)
       IN FinishTraffic(Call("createRetryBackendTrafficPolicy", httpRouteName, httpRouteName,
                             <<>>, <<>>, fault, out), out)

\* The policy name comes from an earlier detection: a policy of the store.
CallUpdateRetry(i, params, fault) ==
    /\ api \in {"gateway", "legacy"}
    /\ i \in 1..Len(trafficPolicies)
    /\ fault \in {"none", "write", "response"}
    /\ LET out == updateRetryBackendTrafficPolicy(api, trafficPolicies,
                                                  trafficPolicies[i].name, params, fault)
       IN FinishTraffic(Call("updateRetryBackendTrafficPolicy", "", trafficPolicies[i].name,
                             <<>>, <<>>, fault, out), out)

CallDeleteRetry(i, fault) ==
    /\ api = "gateway"
    /\ i \in 1..Len(trafficPolicies)
    /\ fault \in {"none", "write", "response"}
    /\ LET out == deleteRetryBackendTrafficPolicy(trafficPolicies, trafficPolicies[i].name,
                                                  fault)
       IN FinishTraffic(Call("deleteRetryBackendTrafficPolicy", "", trafficPolicies[i].name,
                             <<>>, <<>>, fault, out), out)

CallDisableBasicAuth(httpRouteName, fault) ==
    /\ api = "gateway"
    /\ fault \in {"none", "list", "write", "response"}
    /\ LET out == disableBasicAuthForHTTPRoute(policies, httpRouteName, fault)
       IN FinishPolicy(Call("disableBasicAuthForHTTPRoute", httpRouteName, "", <<>>, <<>>,
                            fault, out), out)

CallDisableIpAccess(i, fault) ==
    /\ api = "gateway"
    /\ i \in 1..Len(policies)
    /\ fault \in {"none", "write", "response"}
    /\ LET out == disableIpAccessSecurityPolicy(policies, policies[i].name, fault)
       IN FinishPolicy(Call("disableIpAccessSecurityPolicy", "", policies[i].name, <<>>, <<>>,
                            fault, out), out)

\* The sections pass the route of the section as the owner of the secret.
CallUpsertSecret(httpRouteName, fault) ==
    LET out == upsertBasicAuthSecret(api, objects, routes, SecretNameOf(httpRouteName),
                                     httpRouteName, fault)
    IN FinishSecret(Call("upsertBasicAuthSecret", httpRouteName, SecretNameOf(httpRouteName),
                         <<>>, <<>>, fault, out), out)

\* ---- lookups ----

\* What a lookup returned, and which of its requests went through: the
\* fetch of the route by name, the list of routes, the list of policies.
Looked(result, getOk, listOk, policiesOk) ==
    [result |-> result, getOk |-> getOk, listOk |-> listOk, policiesOk |-> policiesOk]

LocateRoute(host, getOk, listOk) ==
    LET r == getHttpRouteForHost(routes, getOk, listOk, host)
    IN /\ lookup' = Looked(Detected("getHttpRouteForHost", host, r.value, Null, <<>>, <<>>,
                                    Null, r.threw), getOk, listOk, TRUE)
       /\ UNCHANGED <<api, routes, policies, history, calls>>

LocatePolicy(httpRouteName, policiesOk) ==
    LET r == findSecurityPolicyForHTTPRoute(policies, policiesOk, httpRouteName)
    IN /\ lookup' = Looked(Detected("findSecurityPolicyForHTTPRoute", httpRouteName,
                                    httpRouteName, r.value, <<>>, <<>>, Null, r.threw),
                           TRUE, TRUE, policiesOk)
       /\ UNCHANGED <<api, routes, policies, history, calls>>

\* The knative plugin's file has no status detection.
DetectIpAccess(host, getOk, listOk, policiesOk) ==
    /\ api # "knative"
    /\ lookup' = Looked(detectIpAccessConfig(api, routes, policies, host, getOk, listOk,
                                             policiesOk), getOk, listOk, policiesOk)
    /\ UNCHANGED <<api, routes, policies, history, calls>>

DetectBasicAuth(host, getOk, listOk, policiesOk) ==
    /\ api # "knative"
    /\ lookup' = Looked(detectBasicAuthConfig(routes, policies, host, getOk, listOk,
                                              policiesOk), getOk, listOk, policiesOk)
    /\ UNCHANGED <<api, routes, policies, history, calls>>

\* ------------------------------------------------------------------------
\* CIDR validation of the forms
\* ------------------------------------------------------------------------

DigitChars == {"0", "1", "2", "3", "4", "5", "6", "7", "8", "9"}

HexChars == DigitChars \cup {"a", "b", "c", "d", "e", "f", "A", "B", "C", "D", "E", "F"}

WhiteSpace == {" ", "\t"}

AllIn(s, chars) == \A i \in 1..Len(s) : s[i] \in chars

\* The pieces of s between the occurrences of sep.
RECURSIVE SplitOn(_, _)
SplitOn(s, sep) ==
    LET i == FirstIndex([k \in 1..Len(s) |-> s[k] = sep])
    IN IF i = 0 THEN <<s>>
       ELSE <<SubSeq(s, 1, i - 1)>> \o SplitOn(SubSeq(s, i + 1, Len(s)), sep)

\* String.prototype.trim
trim(s) ==
    IF AllIn(s, WhiteSpace) THEN <<>>
    ELSE LET first == FirstIndex([k \in 1..Len(s) |-> s[k] \notin WhiteSpace])
             last == CHOOSE k \in 1..Len(s) :
                        /\ s[k] \notin WhiteSpace
                        /\ \A j \in (k + 1)..Len(s) : s[j] \in WhiteSpace
         IN SubSeq(s, first, last)

\* list.map(s => s.trim()).filter(Boolean)
sanitizeList(list) ==
    SelectSeq([i \in 1..Len(list) |-> trim(list[i])], LAMBDA s : s # <<>>)

\* (25[0-5]|2[0-4]\d|1?\d?\d)
Octet(s) ==
    /\ AllIn(s, DigitChars)
    /\ \/ Len(s) \in {1, 2}
       \/ /\ Len(s) = 3
          /\ \/ s[1] = "1"
             \/ s[1] = "2" /\ s[2] \in {"0", "1", "2", "3", "4"}
             \/ s[1] = "2" /\ s[2] = "5" /\ s[3] \in {"0", "1", "2", "3", "4", "5"}

\* ([0-9]|[12]\d|3[0-2])
PrefixLength4(s) ==
    /\ AllIn(s, DigitChars)
    /\ \/ Len(s) = 1
       \/ Len(s) = 2 /\ s[1] \in {"1", "2"}
       \/ Len(s) = 2 /\ s[1] = "3" /\ s[2] \in {"0", "1", "2"}

\* (12[0-8]|1[01]\d|\d{1,2})
PrefixLength6(s) ==
    /\ AllIn(s, DigitChars)
    /\ \/ Len(s) \in {1, 2}
       \/ Len(s) = 3 /\ s[1] = "1" /\ s[2] \in {"0", "1"}
       \/ Len(s) = 3 /\ s[1] = "1" /\ s[2] = "2" /\ s[3] \in DigitChars \ {"9"}

\* ipv4.test(value): four octets, a slash, a prefix length.
ipv4(value) ==
    LET halves == SplitOn(value, "/")
    IN /\ Len(halves) = 2
       /\ PrefixLength4(halves[2])
       /\ LET octets == SplitOn(halves[1], ".")
          IN Len(octets) = 4 /\ \A i \in 1..4 : Octet(octets[i])

\* ipv6.test(value): hex digits and colons, a slash, a prefix length.
ipv6(value) ==
    LET halves == SplitOn(value, "/")
    IN /\ Len(halves) = 2
       /\ Len(halves[1]) > 0
       /\ AllIn(halves[1], HexChars \cup {":"})
       /\ PrefixLength6(halves[2])

isValidCIDR(value) == ipv4(value) \/ ipv6(value)

\* A message shown to the user: a fixed text and the value put into it.
Message(text, value) == [text |-> text, value |-> value]

NoError == Message("", <<>>)

\* A check of the allow list alone.
validateListsAllowOnly(a, d) ==
    LET all == sanitizeList(a)
        bad == FirstIndex([i \in 1..Len(all) |-> ~isValidCIDR(all[i])])
    IN IF bad = 0 THEN NoError ELSE Message("Invalid CIDR format: ", all[bad])

\* IpAccessSection: the message for the first invalid entry, allow first.
validateLists(a, d) ==
    LET all == sanitizeList(a) \o sanitizeList(d)
        bad == FirstIndex([i \in 1..Len(all) |-> ~isValidCIDR(all[i])])
    IN IF bad = 0 THEN NoError ELSE Message("Invalid CIDR format: ", all[bad])

\* CreateKnativeServiceDialog: the same check.
validateCidrs(allow, deny) ==
    LET all == sanitizeList(allow) \o sanitizeList(deny)
        bad == FirstIndex([i \in 1..Len(all) |-> ~isValidCIDR(all[i])])
    IN IF bad = 0 THEN NoError ELSE Message("Invalid CIDR format: ", all[bad])

\* Texts typed into a row of a form.
PaddedCidrTen == <<" ">> \o CidrTen \o <<" ">>

CidrPrefix33 == <<"1", "0", ".", "0", ".", "0", ".", "0", "/", "3", "3">>

CidrOctet256 == <<"2", "5", "6", ".", "0", ".", "0", ".", "0", "/", "8">>

CidrLinkLocal == <<"f", "e", "8", "0", ":", ":", "/", "6", "4">>

\* The rows of one list of a form.
FormRows ==
    { << <<>> >>, <<PaddedCidrTen>>, <<CidrLinkLocal, CidrOctet256>>,
      <<<<" ">>, CidrPrefix33>> }

\* What one run of a handler did: the form it read, whether the lists
\* were to be applied, the requests it issued and the messages it raised.
Run(handler, allow, deny, applies, requests, messages) ==
    [handler |-> handler, allow |-> allow, deny |-> deny, applies |-> applies,
     requests |-> requests, messages |-> messages]

NoRun == Run("none", <<>>, <<>>, FALSE, <<>>, <<>>)

\* ------------------------------------------------------------------------
\* IpAccessSection (envoy-gateway plugin)
\* ------------------------------------------------------------------------

Unmounted ==
    [host |-> "", httpRouteName |-> Null, policyName |-> Null, allowCidrs |-> <<>>,
     denyCidrs |-> <<>>, openEnable |-> FALSE, openEdit |-> FALSE,
     formAllowCidrs |-> <<>>, formDenyCidrs |-> <<>>, validationErrors |-> <<>>]

\* refresh(): the state after detectIpAccessConfig answered.
refresh(s, items, readsOk) ==
    LET res == detectIpAccessConfig(api, routes, items, s.host, readsOk, readsOk, readsOk)
    IN [s EXCEPT !.httpRouteName = res.httpRoute,
                 !.policyName = res.securityPolicy,
                 !.allowCidrs = res.allowCidrs,
                 !.denyCidrs = res.denyCidrs]

configured == Len(section.allowCidrs) > 0 \/ Len(section.denyCidrs) > 0

\* The section is rendered for a host; its effect runs refresh().
Mount(host, readsOk) ==
    /\ api = "gateway"
    /\ section = Unmounted
    /\ section' = refresh([section EXCEPT !.host = host], policies, readsOk)
    /\ run' = NoRun
    /\ UNCHANGED <<dialog, objects, typed, policyVars>>

OrOneEmptyRow(list) == IF Len(list) > 0 THEN list ELSE << <<>> >>

\* onClick of "Enable IP Access Control" and of "Edit".
OpenDialog ==
    /\ section.host # ""
    /\ ~section.openEnable /\ ~section.openEdit
    /\ ~configured => section.httpRouteName # Null
    /\ section' = [section EXCEPT !.formAllowCidrs = OrOneEmptyRow(section.allowCidrs),
                                  !.formDenyCidrs = OrOneEmptyRow(section.denyCidrs),
                                  !.validationErrors = <<>>,
                                  !.openEnable = ~configured,
                                  !.openEdit = configured]
    /\ run' = NoRun
    /\ UNCHANGED <<dialog, objects, typed, policyVars>>

\* onClose of the open dialog.
CloseDialog ==
    /\ section.openEnable \/ section.openEdit
    /\ section' = [section EXCEPT !.openEnable = FALSE, !.openEdit = FALSE,
                                  !.validationErrors = <<>>]
    /\ run' = NoRun
    /\ UNCHANGED <<dialog, objects, typed, policyVars>>

\* setAllowAt, addAllowRow, removeAllowRow: the rows of the allow list.
EditAllowRows(rows) ==
    /\ section.openEnable \/ section.openEdit
    /\ section' = [section EXCEPT !.formAllowCidrs = rows]
    /\ run' = NoRun
    /\ UNCHANGED <<dialog, objects, typed, policyVars>>

\* setDenyAt, addDenyRow, removeDenyRow: the rows of the deny list.
EditDenyRows(rows) ==
    /\ section.openEnable \/ section.openEdit
    /\ section' = [section EXCEPT !.formDenyCidrs = rows]
    /\ run' = NoRun
    /\ UNCHANGED <<dialog, objects, typed, policyVars>>

handleEnable(fault, readsOk) ==
    /\ section.openEnable
    /\ section.httpRouteName # Null
    /\ LET a == sanitizeList(section.formAllowCidrs)
           d == sanitizeList(section.formDenyCidrs)
           err == validateLists(a, d)
           out == createIpAccessSecurityPolicy(api, policies, routes, section.httpRouteName, section.httpRouteName, a, d, fault)
       IN IF err # NoError
          THEN /\ section' = [section EXCEPT !.validationErrors = <<err>>]
               /\ run' = Run("handleEnable", section.formAllowCidrs,
                             section.formDenyCidrs, TRUE, <<>>, <<err>>)
               /\ UNCHANGED policies
          ELSE /\ policies' = out.policies
               /\ IF out.threw
                  THEN /\ section' = [section EXCEPT !.validationErrors = <<>>]
                       /\ run' = Run("handleEnable", section.formAllowCidrs,
                                     section.formDenyCidrs, TRUE, out.requests,
                                     <<Message("Failed to enable IP access control", <<>>)>>)
                  ELSE /\ section' = refresh([section EXCEPT !.validationErrors = <<>>,
                                                             !.openEnable = FALSE],
                                             out.policies, readsOk)
                       /\ run' = Run("handleEnable", section.formAllowCidrs,
                                     section.formDenyCidrs, TRUE, out.requests,
                                     <<Message("IP access control enabled", <<>>)>>)
    /\ UNCHANGED <<dialog, objects, typed, api, routes, history, lookup, calls>>

\* The ApiResult of the current revision is not looked at; the earlier
\* revision throws.
handleSave(fault, readsOk) ==
    /\ section.openEdit
    /\ section.policyName # Null
    /\ fault \in {"none", "write", "response"}
    /\ LET a == sanitizeList(section.formAllowCidrs)
           d == sanitizeList(section.formDenyCidrs)
           err == validateLists(a, d)
           out == updateIpAccessSecurityPolicy(api, policies, section.policyName, a, d, fault)
       IN IF err # NoError
          THEN /\ section' = [section EXCEPT !.validationErrors = <<err>>]
               /\ run' = Run("handleSave", section.formAllowCidrs,
                             section.formDenyCidrs, TRUE, <<>>, <<err>>)
               /\ UNCHANGED policies
          ELSE /\ policies' = out.policies
               /\ IF out.threw
                  THEN /\ section' = [section EXCEPT !.validationErrors = <<>>]
                       /\ run' = Run("handleSave", section.formAllowCidrs,
                                     section.formDenyCidrs, TRUE, out.requests,
                                     <<Message("Failed to update IP access control", <<>>)>>)
                  ELSE /\ section' = refresh([section EXCEPT !.validationErrors = <<>>,
                                                             !.openEdit = FALSE],
                                             out.policies, readsOk)
                       /\ run' = Run("handleSave", section.formAllowCidrs,
                                     section.formDenyCidrs, TRUE, out.requests,
                                     <<Message("IP access control updated", <<>>)>>)
    /\ UNCHANGED <<dialog, objects, typed, api, routes, history, lookup, calls>>

\* ------------------------------------------------------------------------
\* RetrySection (envoy-gateway plugin)
\* ------------------------------------------------------------------------

\* detectRetryConfig: the route of the host, the first traffic policy that
\* targets it and its retry block (empty when there is none).
detectRetryConfig(rts, items, host, getOk, listOk, policiesOk) ==
    LET httpRoute == getHttpRouteForHost(rts, getOk, listOk, host).value
        btp == findBackendTrafficPolicyForHTTPRoute(items, policiesOk, httpRoute).value
    IN IF httpRoute = Null
       THEN [httpRoute |-> Null, backendTrafficPolicy |-> Null, retry |-> <<>>]
       ELSE [httpRoute |-> httpRoute, backendTrafficPolicy |-> btp,
             retry |-> IF btp = Null THEN <<>>
                       ELSE FieldVal(items[IndexOfName(items, btp)].retry)]

\* The useState defaults of the section.
RetryUnmounted ==
    [host |-> "", httpRouteName |-> Null, policyName |-> Null, numRetries |-> 5,
     baseInterval |-> "100ms", openEnable |-> FALSE, openEdit |-> FALSE,
     validationErrors |-> <<>>]

\* refresh(): the state after detectRetryConfig answered; a field of the
\* form is overwritten when the answer has a value for it.
retryRefresh(s, items, readsOk) ==
    LET res == detectRetryConfig(routes, items, s.host, readsOk, readsOk, readsOk)
    IN [s EXCEPT !.httpRouteName = res.httpRoute,
                 !.policyName = res.backendTrafficPolicy,
                 !.numRetries = IF Len(res.retry) > 0 THEN res.retry[1].numRetries ELSE @,
                 !.baseInterval = IF Len(res.retry) > 0 THEN res.retry[1].baseInterval ELSE @]

retryConfigured == retrySection.httpRouteName # Null /\ retrySection.policyName # Null

\* validate(): the message of the first check that fails.
retryValidate(s) ==
    IF s.numRetries < 0
    THEN Message("Please enter a number greater than or equal to 0 for numRetries", <<>>)
    ELSE IF s.baseInterval = "" THEN Message("Please enter baseInterval (e.g., 100ms)", <<>>)
    ELSE NoError

RetryRun(handler, requests, messages) == Run(handler, <<>>, <<>>, FALSE, requests, messages)

RetryFrame == <<trafficVars, policyVars, section, dialog, objects, typed, sideVars>>

\* The section is rendered for a host; its effect runs refresh().
MountRetry(host, readsOk) ==
    /\ retrySection = RetryUnmounted
    /\ retrySection' = retryRefresh([retrySection EXCEPT !.host = host], trafficPolicies, readsOk)
    /\ run' = NoRun
    /\ UNCHANGED <<trafficPolicies, RetryFrame>>

\* onClick of "Enable Retry" and of "Edit".
OpenRetryDialog ==
    /\ retrySection.host # ""
    /\ ~retrySection.openEnable /\ ~retrySection.openEdit
    /\ ~retryConfigured => retrySection.httpRouteName # Null
    /\ retrySection' = [retrySection EXCEPT !.validationErrors = <<>>,
                              !.openEnable = ~retryConfigured,
                              !.openEdit = retryConfigured]
    /\ run' = NoRun
    /\ UNCHANGED <<trafficPolicies, RetryFrame>>

\* onClose of the open dialog.
CloseRetryDialog ==
    /\ retrySection.openEnable \/ retrySection.openEdit
    /\ retrySection' = [retrySection EXCEPT !.openEnable = FALSE, !.openEdit = FALSE,
                              !.validationErrors = <<>>]
    /\ run' = NoRun
    /\ UNCHANGED <<trafficPolicies, RetryFrame>>

\* onChange of the numRetries and baseInterval fields.
ChangeRetryFields(params) ==
    /\ retrySection.openEnable \/ retrySection.openEdit
    /\ retrySection' = [retrySection EXCEPT !.numRetries = params.numRetries,
                              !.baseInterval = params.baseInterval]
    /\ run' = NoRun
    /\ UNCHANGED <<trafficPolicies, RetryFrame>>

\* handleEnable of RetrySection.
retryHandleEnable(fault, readsOk) ==
    /\ retrySection.openEnable
    /\ retrySection.httpRouteName # Null
    /\ fault \in {"none", "route", "write", "response"}
    /\ LET err == retryValidate(retrySection)
           out == createRetryBackendTrafficPolicy(api, trafficPolicies, routes, retrySection.httpRouteName, retrySection.httpRouteName, RetryParams(retrySection.numRetries, retrySection.baseInterval), fault)
       IN IF err # NoError
          THEN /\ retrySection' = [retrySection EXCEPT !.validationErrors = <<err>>]
               /\ run' = RetryRun("RetrySection.handleEnable", <<>>, <<err>>)
               /\ UNCHANGED trafficPolicies
          ELSE /\ trafficPolicies' = out.policies
               /\ IF out.threw
                  THEN /\ retrySection' = [retrySection EXCEPT !.validationErrors = <<>>]
                       /\ run' = RetryRun("RetrySection.handleEnable", out.requests,
                                          <<Message("Failed to enable Retry config", <<>>)>>)
                  ELSE /\ retrySection' = retryRefresh([retrySection EXCEPT !.validationErrors = <<>>,
                                                              !.openEnable = FALSE,
                                                              !.policyName = out.value],
                                                out.policies, readsOk)
                       /\ run' = RetryRun("RetrySection.handleEnable", out.requests,
                                          <<Message("Retry config enabled", <<>>)>>)
    /\ UNCHANGED RetryFrame

\* handleSave of RetrySection: the ApiResult of the update is not looked at.
retryHandleSave(fault, readsOk) ==
    /\ retrySection.openEdit
    /\ retrySection.policyName # Null
    /\ fault \in {"none", "write", "response"}
    /\ LET err == retryValidate(retrySection)
           out == updateRetryBackendTrafficPolicy(api, trafficPolicies, retrySection.policyName, RetryParams(retrySection.numRetries, retrySection.baseInterval), fault)
       IN IF err # NoError
          THEN /\ retrySection' = [retrySection EXCEPT !.validationErrors = <<err>>]
               /\ run' = RetryRun("RetrySection.handleSave", <<>>, <<err>>)
               /\ UNCHANGED trafficPolicies
          ELSE /\ trafficPolicies' = out.policies
               /\ IF out.threw
                  THEN /\ retrySection' = [retrySection EXCEPT !.validationErrors = <<>>]
                       /\ run' = RetryRun("RetrySection.handleSave", out.requests,
                                          <<Message("Failed to update Retry config", <<>>)>>)
                  ELSE /\ retrySection' = retryRefresh([retrySection EXCEPT !.validationErrors = <<>>,
                                                              !.openEdit = FALSE],
                                                out.policies, readsOk)
                       /\ run' = RetryRun("RetrySection.handleSave", out.requests,
                                          <<Message("Retry config updated", <<>>)>>)
    /\ UNCHANGED RetryFrame

\* handleDelete of RetrySection, once the user has confirmed: the
\* ApiResult of the delete is not looked at.
retryHandleDelete(fault, readsOk) ==
    /\ retryConfigured
    /\ ~retrySection.openEnable /\ ~retrySection.openEdit
    /\ fault \in {"none", "write", "response"}
    /\ LET out == deleteRetryBackendTrafficPolicy(trafficPolicies, retrySection.policyName, fault)
       IN /\ trafficPolicies' = out.policies
          /\ IF out.threw
             THEN /\ run' = RetryRun("RetrySection.handleDelete", out.requests,
                                     <<Message("Failed to disable Retry config", <<>>)>>)
                  /\ UNCHANGED retrySection
             ELSE /\ retrySection' = retryRefresh([retrySection EXCEPT !.validationErrors = <<>>,
                                                         !.openEdit = FALSE],
                                           out.policies, readsOk)
                  /\ run' = RetryRun("RetrySection.handleDelete", out.requests,
                                     <<Message("Retry config disabled", <<>>)>>)
    /\ UNCHANGED RetryFrame

\* ------------------------------------------------------------------------
\* CreateKnativeServiceDialog (knative plugin)
\* ------------------------------------------------------------------------

\* The useState defaults of the dialog.
InitialForm ==
    [open |-> FALSE, namespace |-> "", name |-> "", image |-> "",
     port |-> <<"8", "0", "8", "0">>, minScale |-> <<"0">>, visibility |-> "external",
     envKeys |-> <<>>, enableBasicAuth |-> FALSE, basicAuthUsername |-> <<>>,
     basicAuthPassword |-> <<>>, enableIpAccessControl |-> FALSE,
     ipAllowCidrs |-> << <<>> >>, ipDenyCidrs |-> << <<>> >>]

DigitOrder == <<"0", "1", "2", "3", "4", "5", "6", "7", "8", "9">>

DigitValue(c) == (CHOOSE i \in 1..10 : DigitOrder[i] = c) - 1

RECURSIVE DecimalValue(_)
DecimalValue(s) ==
    IF s = <<>> THEN 0
    ELSE 10 * DecimalValue(SubSeq(s, 1, Len(s) - 1)) + DigitValue(s[Len(s)])

\* Number(text) of a decimal integer; any other text of the model is NaN.
NumberOf(s) ==
    IF s # <<>> /\ AllIn(s, DigitChars)
    THEN [finite |-> TRUE, val |-> DecimalValue(s)]
    ELSE IF Len(s) > 1 /\ s[1] = "-" /\ AllIn(Tail(s), DigitChars)
    THEN [finite |-> TRUE, val |-> 0 - DecimalValue(Tail(s))]
    ELSE [finite |-> FALSE, val |-> 0]

\* `${name}-env` and `${serviceName}-basic-auth` for the service name of
\* the model.
EnvSecretName(name) == CASE name = "svc" -> "svc-env"

BasicAuthSecretName(serviceName) == CASE serviceName = "svc" -> "svc-basic-auth"

\* The dialog is opened.
OpenCreateDialog ==
    /\ api = "knative"
    /\ ~dialog.open
    /\ dialog' = [InitialForm EXCEPT !.open = TRUE]
    /\ run' = NoRun
    /\ UNCHANGED <<section, objects, typed, policyVars>>

\* onChange of a field and the row handlers of the two CIDR lists.  The
\* security switches are rendered for an external service, their fields
\* when the switch is on.
ChangeField(field, value) ==
    /\ dialog.open
    /\ field \in {"enableBasicAuth", "enableIpAccessControl"}
          => dialog.visibility = "external"
    /\ field \in {"basicAuthUsername", "basicAuthPassword"}
          => dialog.visibility = "external" /\ dialog.enableBasicAuth
    /\ field \in {"ipAllowCidrs", "ipDenyCidrs"}
          => dialog.visibility = "external" /\ dialog.enableIpAccessControl
    /\ dialog' = [dialog EXCEPT ![field] = value]
    /\ run' = NoRun
    /\ typed < MaxFormEdits
    /\ typed' = typed + 1
    /\ UNCHANGED <<section, objects, policyVars>>

\* The checks of handleSubmit, in their order: the message of the first
\* one that fails.
FormRejection(f) ==
    LET portNum == NumberOf(f.port)
        minScaleNum == NumberOf(f.minScale)
        external == f.visibility = "external"
    IN IF f.namespace = "" \/ f.name = "" \/ f.image = "" \/ f.port = <<>>
       THEN Message("namespace, name, image, port are required", <<>>)
       ELSE IF ~portNum.finite \/ portNum.val <= 0 \/ portNum.val > 65535
       THEN Message("port must be a valid number (1-65535)", <<>>)
       ELSE IF ~minScaleNum.finite \/ minScaleNum.val < 0
       THEN Message("minScale must be a non-negative number", <<>>)
       ELSE IF /\ external /\ f.enableBasicAuth
               /\ (trim(f.basicAuthUsername) = <<>> \/ f.basicAuthPassword = <<>>)
       THEN Message("Basic Auth: username and password are required", <<>>)
       ELSE IF external /\ f.enableIpAccessControl
       THEN validateCidrs(f.ipAllowCidrs, f.ipDenyCidrs)
       ELSE NoError

\* What the writes of a submit leave behind.
Written(items, objs, requests, threw) ==
    [policies |-> items, objects |-> objs, requests |-> requests, threw |-> threw]

\* `route` is what waitForServiceHttpRoute returned.
configureSecurityForService(f, items, objs, route, fault) ==
    LET secretName == BasicAuthSecretName(f.name)
        secret == Request(IF Object("secrets", secretName) \in objs THEN "PATCH" ELSE "POST",
                          "secrets", secretName, NoBody, Status(fault # "secret"))
        basic == createSecurityPolicyForHTTPRoute(api, items, routes, route, route, secretName, fault)
        afterBasic ==
            IF ~f.enableBasicAuth THEN Written(items, objs, <<>>, FALSE)
            ELSE IF fault = "secret" THEN Written(items, objs, <<secret>>, TRUE)
            ELSE Written(basic.policies, objs \cup {Object("secrets", secretName)},
                         <<secret>> \o basic.requests, basic.threw)
        ip == createIpAccessSecurityPolicy(api, afterBasic.policies, routes, route, route, sanitizeList(f.ipAllowCidrs), sanitizeList(f.ipDenyCidrs), fault)
    IN IF route = Null THEN Written(items, objs, <<>>, TRUE)
       ELSE IF afterBasic.threw \/ ~f.enableIpAccessControl THEN afterBasic
       ELSE Written(ip.policies, afterBasic.objects, afterBasic.requests \o ip.requests,
                    ip.threw)

\* createSecret for the environment, then createService.
CreateServiceWrites(f, objs, fault) ==
    LET withEnv == Len(f.envKeys) > 0
        secret == Request("POST", "secrets", EnvSecretName(f.name), NoBody,
                          Status(fault # "secret"))
        serviceOk == fault # "service" /\ Object("services", f.name) \notin objs
        service == Request("POST", "services", f.name, NoBody, Status(serviceOk))
    IN IF withEnv /\ fault = "secret" THEN Written(policies, objs, <<secret>>, TRUE)
       ELSE LET objs1 == IF withEnv THEN objs \cup {Object("secrets", EnvSecretName(f.name))}
                         ELSE objs
                reqs == (IF withEnv THEN <<secret>> ELSE <<>>) \o <<service>>
            IN IF serviceOk
               THEN Written(policies, objs1 \cup {Object("services", f.name)}, reqs, FALSE)
               ELSE Written(policies, objs1, reqs, TRUE)

DialogFaults == Faults \cup {"secret", "service"}

handleSubmit(fault, route) ==
    /\ dialog.open
    /\ LET f == dialog
           rejection == FormRejection(f)
           applies == f.visibility = "external" /\ f.enableIpAccessControl
           secure == f.visibility = "external" /\ (f.enableBasicAuth \/ f.enableIpAccessControl)
           created == CreateServiceWrites(f, objects, fault)
           secured == configureSecurityForService(f, policies, created.objects, route, fault)
       IN IF rejection # NoError
          THEN /\ run' = Run("handleSubmit", f.ipAllowCidrs, f.ipDenyCidrs, applies, <<>>,
                             <<rejection>>)
               /\ UNCHANGED <<dialog, objects, policies>>
          ELSE IF created.threw
          THEN /\ run' = Run("handleSubmit", f.ipAllowCidrs, f.ipDenyCidrs, applies,
                             created.requests, <<Message("Failed to create KService", <<>>)>>)
               /\ objects' = created.objects
               /\ UNCHANGED <<dialog, policies>>
          ELSE IF ~secure
          THEN /\ run' = Run("handleSubmit", f.ipAllowCidrs, f.ipDenyCidrs, applies,
                             created.requests, <<Message("KService created", <<>>)>>)
               /\ objects' = created.objects
               /\ dialog' = InitialForm
               /\ UNCHANGED policies
          ELSE /\ run' = Run("handleSubmit", f.ipAllowCidrs, f.ipDenyCidrs, applies,
                             created.requests \o secured.requests,
                             <<Message("KService created", <<>>),
                               IF secured.threw
                               THEN Message("KService created but failed to configure security", <<>>)
                               ELSE Message("Security settings applied via Envoy Gateway", <<>>)>>)
               /\ objects' = secured.objects
               /\ policies' = secured.policies
               /\ dialog' = InitialForm
    /\ UNCHANGED <<section, typed, api, routes, history, lookup, calls>>

UiIdle ==
    /\ trafficPolicies = <<>>
    /\ retrySection = RetryUnmounted
    /\ section = Unmounted
    /\ dialog = InitialForm
    /\ objects = {}
    /\ run = NoRun
    /\ typed = 0

\* ------------------------------------------------------------------------
\* The credential line (sha1Base64, buildHtpasswdLine)
\* ------------------------------------------------------------------------

\* A JavaScript string is a sequence of UTF-16 code units; a 32-bit word of
\* the digest is kept as <<high 16 bits, low 16 bits>>.
HalfWord == 65536

HighSurrogate(u) == u >= 55296 /\ u <= 56319

LowSurrogate(u) == u >= 56320 /\ u <= 57343

\* The UTF-8 bytes of a code point.
Utf8Bytes(cp) ==
    IF cp < 128 THEN <<cp>>
    ELSE IF cp < 2048 THEN <<192 + (cp \div 64), 128 + (cp % 64)>>
    ELSE IF cp < 65536
    THEN <<224 + (cp \div 4096), 128 + ((cp \div 64) % 64), 128 + (cp % 64)>>
    ELSE <<240 + (cp \div 262144), 128 + ((cp \div 4096) % 64),
           128 + ((cp \div 64) % 64), 128 + (cp % 64)>>

\* new TextEncoder().encode(input): a surrogate pair is one code point, a
\* surrogate without its partner is encoded as U+FFFD.
RECURSIVE TextEncoderEncode(_)
TextEncoderEncode(input) ==
    IF input = <<>> THEN <<>>
    ELSE IF /\ HighSurrogate(input[1])
            /\ Len(input) > 1
            /\ LowSurrogate(input[2])
    THEN Utf8Bytes(65536 + (input[1] - 55296) * 1024 + (input[2] - 56320))
         \o TextEncoderEncode(SubSeq(input, 3, Len(input)))
    ELSE IF HighSurrogate(input[1]) \/ LowSurrogate(input[1])
    THEN Utf8Bytes(65533) \o TextEncoderEncode(Tail(input))
    ELSE Utf8Bytes(input[1]) \o TextEncoderEncode(Tail(input))

\* A bitwise operation on two n-bit numbers.
RECURSIVE BitOp(_, _, _, _)
BitOp(op, a, b, n) ==
    IF n = 0 THEN 0
    ELSE (CASE op = "xor" -> ((a % 2) + (b % 2)) % 2
            [] op = "and" -> (a % 2) * (b % 2)
            [] op = "or" -> IF (a % 2) + (b % 2) > 0 THEN 1 ELSE 0)
         + 2 * BitOp(op, a \div 2, b \div 2, n - 1)

WordXor(x, y) == <<BitOp("xor", x[1], y[1], 16), BitOp("xor", x[2], y[2], 16)>>

WordAnd(x, y) == <<BitOp("and", x[1], y[1], 16), BitOp("and", x[2], y[2], 16)>>

WordOr(x, y) == <<BitOp("or", x[1], y[1], 16), BitOp("or", x[2], y[2], 16)>>

WordNot(x) == <<HalfWord - 1 - x[1], HalfWord - 1 - x[2]>>

\* Addition modulo 2^32.
WordAdd(x, y) ==
    LET lo == x[2] + y[2]
    IN <<(x[1] + y[1] + (lo \div HalfWord)) % HalfWord, lo % HalfWord>>

\* Rotation to the left by n bits, 0 < n < 32.
RotateLeftSmall(x, n) ==
    <<((x[1] * (2 ^ n)) % HalfWord) + (x[2] \div (2 ^ (16 - n))),
      ((x[2] * (2 ^ n)) % HalfWord) + (x[1] \div (2 ^ (16 - n)))>>

RotateLeft(x, n) ==
    IF n < 16 THEN RotateLeftSmall(x, n) ELSE RotateLeftSmall(<<x[2], x[1]>>, n - 16)

\* SHA-1 padding: 0x80, zeros up to 56 modulo 64, the length in bits (the
\* inputs of the model are shorter than 8192 bytes).
ShaPad(bytes) ==
    LET zeros == (56 - ((Len(bytes) + 1) % 64) + 64) % 64
        bits == Len(bytes) * 8
    IN bytes \o <<128>> \o [i \in 1..zeros |-> 0]
             \o <<0, 0, 0, 0, 0, 0, bits \div 256, bits % 256>>

ShaWordAt(bytes, i) ==
    <<bytes[i] * 256 + bytes[i + 1], bytes[i + 2] * 256 + bytes[i + 3]>>

\* The message schedule: 16 words of the block extended to 80.
RECURSIVE ShaSchedule(_)
ShaSchedule(w) ==
    IF Len(w) = 80 THEN w
    ELSE LET t == Len(w) + 1
         IN ShaSchedule(Append(w,
                RotateLeft(WordXor(WordXor(w[t - 3], w[t - 8]),
                                   WordXor(w[t - 14], w[t - 16])), 1)))

ShaF(t, b, c, d) ==
    IF t < 20 THEN WordOr(WordAnd(b, c), WordAnd(WordNot(b), d))
    ELSE IF t < 40 THEN WordXor(WordXor(b, c), d)
    ELSE IF t < 60 THEN WordOr(WordOr(WordAnd(b, c), WordAnd(b, d)), WordAnd(c, d))
    ELSE WordXor(WordXor(b, c), d)

\* 5A827999, 6ED9EBA1, 8F1BBCDC, CA62C1D6
ShaK(t) ==
    IF t < 20 THEN <<23170, 31129>>
    ELSE IF t < 40 THEN <<28377, 60321>>
    ELSE IF t < 60 THEN <<36635, 48348>>
    ELSE <<51810, 49622>>

\* One round on <<t, a, b, c, d, e>>.
ShaRound(s, w) ==
    LET t == s[1]
        temp == WordAdd(WordAdd(WordAdd(WordAdd(RotateLeft(s[2], 5),
                                                ShaF(t, s[3], s[4], s[5])),
                                        s[6]),
                                ShaK(t)),
                        w[t + 1])
    IN <<t + 1, temp, s[2], RotateLeft(s[3], 30), s[4], s[5]>>

RECURSIVE ShaRounds(_, _)
ShaRounds(s, w) == IF s[1] = 80 THEN s ELSE ShaRounds(ShaRound(s, w), w)

\* 67452301, EFCDAB89, 98BADCFE, 10325476, C3D2E1F0
ShaInitial == <<<<26437, 8961>>, <<61389, 43913>>, <<39098, 56574>>, <<4146, 21622>>,
                <<50130, 57840>>>>

ShaBlock(h, bytes, off) ==
    LET w == ShaSchedule([i \in 1..16 |-> ShaWordAt(bytes, off + 4 * (i - 1) + 1)])
        s == ShaRounds(<<0>> \o h, w)
    IN [i \in 1..5 |-> WordAdd(h[i], s[i + 1])]

RECURSIVE ShaBlocks(_, _, _)
ShaBlocks(h, bytes, off) ==
    IF off >= Len(bytes) THEN h ELSE ShaBlocks(ShaBlock(h, bytes, off), bytes, off + 64)

\* crypto.subtle.digest('SHA-1', data), createHash('sha1').update(data).digest():
\* the 20 bytes of the digest.
Sha1Digest(data) ==
    LET h == ShaBlocks(ShaInitial, ShaPad(data), 0)
    IN [i \in 1..20 |->
          LET half == h[((i - 1) \div 4) + 1][(((i - 1) % 4) \div 2) + 1]
          IN IF i % 2 = 1 THEN half \div 256 ELSE half % 256]

Base64Alphabet ==
    <<"A", "B", "C", "D", "E", "F", "G", "H", "I", "J", "K", "L", "M", "N", "O", "P",
      "Q", "R", "S", "T", "U", "V", "W", "X", "Y", "Z", "a", "b", "c", "d", "e", "f",
      "g", "h", "i", "j", "k", "l", "m", "n", "o", "p", "q", "r", "s", "t", "u", "v",
      "w", "x", "y", "z", "0", "1", "2", "3", "4", "5", "6", "7", "8", "9", "+", "/">>

\* btoa of the binary string of the bytes, Buffer.toString('base64').
RECURSIVE base64Encode(_)
base64Encode(bytes) ==
    IF bytes = <<>> THEN ""
    ELSE LET b1 == bytes[1]
             b2 == IF Len(bytes) > 1 THEN bytes[2] ELSE 0
             b3 == IF Len(bytes) > 2 THEN bytes[3] ELSE 0
         IN Base64Alphabet[(b1 \div 4) + 1]
            \o Base64Alphabet[((b1 % 4) * 16) + (b2 \div 16) + 1]
            \o (IF Len(bytes) > 1 THEN Base64Alphabet[((b2 % 16) * 4) + (b3 \div 64) + 1]
                ELSE "=")
            \o (IF Len(bytes) > 2 THEN Base64Alphabet[(b3 % 64) + 1] ELSE "=")
            \o (IF Len(bytes) > 3 THEN base64Encode(SubSeq(bytes, 4, Len(bytes))) ELSE "")

\* Both branches (SubtleCrypto, node's crypto) compute the same digest and
\* the same encoding of it.
sha1Base64(input) == base64Encode(Sha1Digest(TextEncoderEncode(input)))

\* A line that keeps the digest of the first character only.
buildHtpasswdLineFirstCharacter(username, password) ==
    username \o ":{SHA}" \o sha1Base64(SubSeq(password, 1, 1))

\* `${username}:{SHA}${b64}`
buildHtpasswdLine(username, password) == username \o ":{SHA}" \o sha1Base64(password)

\* The user names and the passwords handed to the function: "abc", "abd",
\* "password", an accented letter, a surrogate pair, a high and a low
\* surrogate on their own, and U+FFFD.
Usernames == {"admin", "guest"}

Passwords ==
    { <<97, 98, 99>>, <<97, 98, 100>>, <<112, 97, 115, 115, 119, 111, 114, 100>>,
      <<233>>, <<55357, 56832>>, <<55357>>, <<56832>>, <<65533>> }

NotBuilt == "not built"

\* Two calls with one user name: the passwords handed in and the lines
\* that came back.
Htpasswd(username, passwords, lines) ==
    [username |-> username, passwords |-> passwords, lines |-> lines]

\* One call of buildHtpasswdLine, for the i-th password.
BuildLine(i) ==
    /\ htpasswd.lines[i] = NotBuilt
    /\ htpasswd' = [htpasswd EXCEPT
                       !.lines[i] = buildHtpasswdLine(htpasswd.username,
                                                      htpasswd.passwords[i])]

\* ------------------------------------------------------------------------
\* Two plugin instances at work on one namespace
\* ------------------------------------------------------------------------

Clients == {1, 2}

\* What an instance is doing: the operation, how far it got, what it
\* sends, what its lookup found, what it was told, and the place of its
\* write among the writes the server applied (0: none applied).
Client(op, pc, list, base, name, lists, found, fault, result, rank) ==
    [op |-> op, pc |-> pc, list |-> list, base |-> base, name |-> name, lists |-> lists,
     found |-> found, fault |-> fault, result |-> result, rank |-> rank]

IdleClient == Client("none", "idle", <<>>, <<>>, "", <<<<>>, <<>>>>, Null, "none", "none", 0)

\* The number of writes the server has applied.
AppliedWrites(cs) == Cardinality({c \in Clients : cs[c].rank > 0})

\* The lists two editors build from the same service.
RaceTrafficLists ==
    { BuildTraffic([r \in Revisions |-> IF r = "revA" THEN Pct(100) ELSE 0], 0,
                   [r \in Revisions |-> <<>>], <<>>),
      BuildTraffic([r \in Revisions |-> IF r = "revA" THEN Pct(30) ELSE 0], Pct(70),
                   [r \in Revisions |-> <<>>], <<"t2">>) }

\* onSaveTraffic of an instance, up to its request: the list was built
\* from the service the instance had loaded.
RaceStartSave(c, list) ==
    /\ clients[c].pc = "idle"
    /\ clients' = [clients EXCEPT ![c] = [IdleClient EXCEPT !.op = "saveTraffic",
                                                           !.pc = "write",
                                                           !.list = list,
                                                           !.base = traffic]]
    /\ UNCHANGED <<traffic, policies>>

\* A PATCH that the server refuses when the list is no longer the one the
\* instance had loaded.
RacePatchTrafficIfUnchanged(c, outcome) ==
    /\ clients[c].op = "saveTraffic"
    /\ clients[c].pc = "write"
    /\ LET stale == traffic # clients[c].base
           applied == outcome # "failed" /\ ~stale
       IN /\ traffic' = IF applied THEN clients[c].list ELSE traffic
          /\ clients' = [clients EXCEPT
                 ![c].pc = "done",
                 ![c].fault = outcome,
                 ![c].result = IF outcome = "ok" /\ ~stale THEN "success" ELSE "failure",
                 ![c].rank = IF applied THEN AppliedWrites(clients) + 1 ELSE 0]
    /\ UNCHANGED policies

\* The PATCH of updateTraffic reaches the server and its answer comes back:
\* the body carries spec.traffic and nothing that names a version.
RacePatchTraffic(c, outcome) ==
    /\ clients[c].op = "saveTraffic"
    /\ clients[c].pc = "write"
    /\ traffic' = updateTraffic(outcome, clients[c].list)
    /\ clients' = [clients EXCEPT
           ![c].pc = "done",
           ![c].fault = outcome,
           ![c].result = IF outcome = "ok" THEN "success" ELSE "failure",
           ![c].rank = IF outcome # "failed" THEN AppliedWrites(clients) + 1 ELSE 0]
    /\ UNCHANGED policies

\* handleSave of the IP access section, up to its request.
RaceStartUpdate(c, i, lists) ==
    /\ clients[c].pc = "idle"
    /\ i \in 1..Len(policies)
    /\ clients' = [clients EXCEPT ![c] = [IdleClient EXCEPT !.op = "updateIpAccess",
                                                           !.pc = "write",
                                                           !.name = policies[i].name,
                                                           !.lists = lists]]
    /\ UNCHANGED <<traffic, policies>>

\* The PATCH of updateIpAccessSecurityPolicy reaches the server.
RacePatchPolicy(c, fault) ==
    /\ clients[c].op = "updateIpAccess"
    /\ clients[c].pc = "write"
    /\ fault \in {"none", "write", "response"}
    /\ LET out == updateIpAccessSecurityPolicy(api, policies, clients[c].name,
                                               clients[c].lists[1], clients[c].lists[2], fault)
       IN /\ policies' = out.policies
          /\ clients' = [clients EXCEPT
                 ![c].pc = "done",
                 ![c].fault = fault,
                 ![c].result = IF out.threw \/ out.value = "failure" THEN "failure"
                               ELSE "success",
                 ![c].rank = IF out.requests[1].status = "ok"
                             THEN AppliedWrites(clients) + 1 ELSE 0]
    /\ UNCHANGED traffic

\* The route the sections of the two instances show.
RaceRoute == "other-route"

\* What the enable action of a section asks for: the name of the policy to
\* create, the body of a patch and the spec of a creation.  The sections of
\* the envoy-gateway plugin name the policy after the route and the kind of
\* access control, the dialog of the knative plugin after the route alone.
\* The apiKeyAuth block is not one of the blocks of the model.
EnableKinds == {"enableBasicAuth", "enableIpAccess", "enableApiKey"}

EnablePolicyName(rev, kind) ==
    CASE rev = "knative" -> RaceRoute
      [] kind = "enableBasicAuth" -> "other-route-basic-auth"
      [] kind = "enableApiKey" -> "other-route-apikey-auth"
      [] kind = "enableIpAccess" -> RaceRoute

EnableBody(kind, forPatch) ==
    CASE kind = "enableBasicAuth" -> OnlyBasicAuth(Present(<<SecretNameOf(RaceRoute)>>))
      [] kind = "enableApiKey" -> NoBody
      [] kind = "enableIpAccess" ->
            OnlyAuthorization(AuthorizationOf(api, <<CidrTen>>, <<>>, forPatch))

\* The enable action of a section starts.  The earlier revision has no
\* lookup; the API key functions exist in the earlier revision only.
RaceStartEnable(c, kind) ==
    /\ clients[c].pc = "idle"
    /\ kind = "enableApiKey" => api = "legacy"
    /\ clients' = [clients EXCEPT ![c] = [IdleClient EXCEPT
                       !.op = kind,
                       !.pc = IF api = "legacy" THEN "write" ELSE "lookup",
                       !.name = EnablePolicyName(api, kind)]]
    /\ UNCHANGED <<traffic, policies>>

\* The answer of findSecurityPolicyForHTTPRoute arrives.
RaceLookup(c, listOk) ==
    /\ clients[c].op \in EnableKinds
    /\ clients[c].pc = "lookup"
    /\ clients' = [clients EXCEPT
           ![c].pc = "write",
           ![c].found = findSecurityPolicyForHTTPRoute(policies, listOk, RaceRoute).value]
    /\ UNCHANGED <<traffic, policies>>

\* The write the lookup decided on reaches the server: the PATCH of the
\* policy that was found, else the POST of a new one.
RaceWrite(c, fault) ==
    /\ clients[c].op \in EnableKinds
    /\ clients[c].pc = "write"
    /\ fault \in {"none", "route", "write", "response"}
    /\ LET kind == clients[c].op
           spec == EnableBody(kind, FALSE)
           out == IF clients[c].found # Null
                  THEN PatchThenGet(policies, <<>>, clients[c].found,
                                    EnableBody(kind, TRUE), fault)
                  ELSE IF api = "legacy"
                  THEN CreatePolicyLegacy(policies, clients[c].name, RaceRoute, spec, fault)
                  ELSE PostPolicy(policies, <<GetRouteRequest(routes, fault, RaceRoute)>>,
                                  Policy(clients[c].name, Present(<<RouteRef(RaceRoute)>>),
                                         spec.authorization, spec.basicAuth,
                                         buildHttpRouteOwnerRef(routes, fault # "route",
                                                                RaceRoute)),
                                  fault)
       IN /\ policies' = out.policies
          /\ clients' = [clients EXCEPT
                 ![c].pc = "done",
                 ![c].fault = fault,
                 ![c].result = IF out.threw THEN "failure" ELSE "success",
                 ![c].rank = IF out.policies # policies
                             THEN AppliedWrites(clients) + 1 ELSE 0]
    /\ UNCHANGED traffic

\* ------------------------------------------------------------------------
\* Secrets with their payload
\* ------------------------------------------------------------------------

\* A stored secret: its data as a set of <<key, value>> and its owner.
Secret(name, data, ownerReferences) ==
    [name |-> name, data |-> data, ownerReferences |-> ownerReferences]

DataKeys(data) == {kv[1] : kv \in data}

StoredSecret(store, name) == CHOOSE x \in store : x.name = name

\* RFC 7396 on the `data` object: the keys of the patch take its values,
\* the other stored keys stay.
MergePatchData(stored, patch) ==
    patch \cup {kv \in stored : kv[1] \notin DataKeys(patch)}

\* What the write of a secret upsert leaves in the store, given the
\* requests the upsert issued: the write is its last request.
ApplySecretWrite(store, requests, name, data) ==
    LET w == requests[Len(requests)]
    IN IF w.status # "ok" THEN store
       ELSE IF w.method = "POST"
       THEN store \cup {Secret(name, data, w.body.ownerReferences)}
       ELSE {IF x.name = name
             THEN Secret(name, MergePatchData(x.data, data), x.ownerReferences)
             ELSE x : x \in store}

\* The line buildHtpasswdLine returned for a credential, read from the
\* record of its calls.
LineBuilt(built, username, password) ==
    built.lines[CHOOSE i \in 1..Len(built.passwords) :
                    built.username = username /\ built.passwords[i] = password]

\* The payload of upsertBasicAuthSecret: `${line}\n` under .htpasswd.  The
\* value keeps the user name the line starts with, which is what
\* readHtpasswdUsernamesFromSecret reads back; btoa is left out.
HtpasswdData(username, line) ==
    {<<".htpasswd", [username |-> username, content |-> line \o "\n"]>>}

\* ------------------------------------------------------------------------
\* BasicAuthSection (envoy-gateway plugin)
\* ------------------------------------------------------------------------

\* Runs of handleEnableSave in one behaviour.
MaxAttempts == 2

BasicAuthHost == "api.example.com"

BasicAuthUnmounted ==
    [httpRouteName |-> Null, policyName |-> Null, secretName |-> Null, usernames |-> <<>>,
     formUsername |-> "", formPassword |-> <<>>, formSecretName |-> "basic-auth",
     openEnable |-> FALSE, validationErrors |-> <<>>, attempts |-> <<>>]

\* readHtpasswdUsernamesFromSecret
HtpasswdUsernames(store, name) ==
    IF \E x \in store : x.name = name /\ ".htpasswd" \in DataKeys(x.data)
    THEN LET x == StoredSecret(store, name)
             kv == CHOOSE e \in x.data : e[1] = ".htpasswd"
         IN <<kv[2].username>>
    ELSE <<>>

\* refresh() of the section, all reads answered.
basicAuthRefresh(s, store, items, rts) ==
    LET res == detectBasicAuthConfig(rts, items, BasicAuthHost, TRUE, TRUE, TRUE)
        names == IF res.secretName = Null THEN <<>>
                 ELSE HtpasswdUsernames(store, res.secretName)
    IN [s EXCEPT !.httpRouteName = res.httpRoute,
                 !.policyName = res.securityPolicy,
                 !.secretName = res.secretName,
                 !.usernames = names,
                 !.formSecretName = IF res.secretName # Null THEN res.secretName ELSE @,
                 !.formUsername = IF Len(names) > 0 THEN names[1] ELSE @]

\* What one run of handleEnableSave read, met and did.
EnableAttempt(s, secretFault, policyFault, outcome, requests, before) ==
    [username |-> s.formUsername, password |-> s.formPassword,
     secretName |-> s.formSecretName, secretFault |-> secretFault,
     policyFault |-> policyFault, outcome |-> outcome, requests |-> requests,
     before |-> before]

Stores(objs, store, items) == [objects |-> objs, secretStore |-> store, policies |-> items]

\* The requests of handleEnableSave and what they leave: the upsert of the
\* secret, whose result is not looked at unless it throws, then the upsert
\* of the policy named after the route.
EnableSaveRequests(rev, s, st, rts, built, secretFault, policyFault) ==
    LET sec == upsertBasicAuthSecret(rev, st.objects, rts, s.formSecretName,
                                     s.httpRouteName, secretFault)
        store == ApplySecretWrite(st.secretStore, sec.requests, s.formSecretName,
                                  HtpasswdData(s.formUsername,
                                      LineBuilt(built, s.formUsername, s.formPassword)))
        pol == createSecurityPolicyForHTTPRoute(rev, st.policies, rts,
                                                s.httpRouteName \o "-basic-auth",
                                                s.httpRouteName, s.formSecretName,
                                                policyFault)
    IN IF sec.threw
       THEN [stores |-> Stores(sec.policies, store, st.policies),
             requests |-> sec.requests, threw |-> TRUE]
       ELSE [stores |-> Stores(sec.policies, store, pol.policies),
             requests |-> sec.requests \o pol.requests, threw |-> pol.threw]

\* The "Enable" button of the section.
BasicAuthOpenEnable ==
    /\ basicAuthSection.httpRouteName # Null
    /\ basicAuthSection.secretName = Null
    /\ ~basicAuthSection.openEnable
    /\ basicAuthSection' = [basicAuthSection EXCEPT
           !.formUsername = IF Len(basicAuthSection.usernames) > 0
                            THEN basicAuthSection.usernames[1] ELSE "",
           !.formPassword = <<>>,
           !.formSecretName = "basic-auth",
           !.validationErrors = <<>>,
           !.openEnable = TRUE]
    /\ UNCHANGED <<objects, secretStore, policies>>

\* The user fills in the two fields of the dialog.
BasicAuthChangeFields(username, password) ==
    /\ basicAuthSection.openEnable
    /\ basicAuthSection' = [basicAuthSection EXCEPT !.formUsername = username,
                                                    !.formPassword = password]
    /\ UNCHANGED <<objects, secretStore, policies>>

\* The section mounts: refresh().
BasicAuthMount ==
    /\ basicAuthSection = BasicAuthUnmounted
    /\ basicAuthSection' = basicAuthRefresh(basicAuthSection, secretStore, policies, routes)
    /\ UNCHANGED <<objects, secretStore, policies>>

\* handleEnableSave of the section.
basicAuthHandleEnableSave(secretFault, policyFault) ==
    /\ basicAuthSection.openEnable
    /\ basicAuthSection.httpRouteName # Null
    /\ Len(basicAuthSection.attempts) < MaxAttempts
    /\ LET s == basicAuthSection
           before == Stores(objects, secretStore, policies)
       IN IF s.formUsername = "" \/ s.formPassword = <<>> \/ s.formSecretName = ""
          THEN /\ basicAuthSection' = [s EXCEPT
                      !.validationErrors =
                          <<"Please enter a username, password, and secret name">>,
                      !.attempts = Append(@, EnableAttempt(s, secretFault, policyFault,
                                                     "invalid", <<>>, before))]
               /\ UNCHANGED <<objects, secretStore, policies>>
          ELSE LET out == EnableSaveRequests(api, s, before, routes, htpasswd, secretFault,
                                                 policyFault)
                   logged == [s EXCEPT
                                 !.validationErrors = <<>>,
                                 !.attempts = Append(@, EnableAttempt(s, secretFault, policyFault,
                                                  IF out.threw THEN "failed" ELSE "success",
                                                  out.requests, before))]
               IN /\ objects' = out.stores.objects
                  /\ secretStore' = out.stores.secretStore
                  /\ policies' = out.stores.policies
                  /\ basicAuthSection' =
                        IF out.threw THEN logged
                        ELSE [basicAuthRefresh([logged EXCEPT !.openEnable = FALSE],
                                               out.stores.secretStore, out.stores.policies,
                                               routes)
                                 EXCEPT !.formPassword = <<>>]

\* ------------------------------------------------------------------------
\* The key-value secret and ApiKeyAuthSection (envoy-gateway plugin)
\* ------------------------------------------------------------------------

\* A row of the clients form; API keys are sequences of Latin-1 code units.
ClientEntry(clientId, apiKey) == [clientId |-> clientId, apiKey |-> apiKey]

BlankEntry == ClientEntry("", <<>>)

\* Rows of the clients form in one behaviour.
MaxRows == 2

\* `for (const c of clients) kv[c.clientId] = c.apiKey`: the last row of a
\* client identifier wins.
ClientPairs(list) ==
    {<<list[i].clientId, list[i].apiKey>> : i \in
        {k \in 1..Len(list) : \A j \in (k + 1)..Len(list) : list[j].clientId # list[k].clientId}}

\* data[k] = btoa(v) for each pair.
EncodedPairs(kv) == {<<e[1], base64Encode(e[2])>> : e \in kv}

\* upsertOpaqueKeyValueSecret: a POST of the pairs when getSecret finds
\* nothing, else a merge patch whose `data` holds the pairs.
upsertOpaqueKeyValueSecret(objs, store, name, kv, fault) ==
    LET existing == getSecret(objs, fault # "list", name).value
        read == Request("GET", "secrets", name, NoBody, Status(existing # Null))
        data == EncodedPairs(kv)
        posted == fault # "write" /\ Object("secrets", name) \notin objs
        write == IF existing # Null
                 THEN Request("PATCH", "secrets", name, NoBody, Status(fault # "write"))
                 ELSE Request("POST", "secrets", name, SecretBody(name, Absent),
                              Status(posted))
    IN [objects |-> IF write.method = "POST" /\ posted
                    THEN objs \cup {Object("secrets", name)} ELSE objs,
        secretStore |-> ApplySecretWrite(store, <<read, write>>, name, data),
        requests |-> <<read, write>>,
        threw |-> write.status # "ok" \/ fault = "response"]

\* validateClients
validateClients(list) ==
    IF Len(list) = 0 THEN "Please add at least one client"
    ELSE IF \E i \in 1..Len(list) :
              /\ list[i].clientId = ""
              /\ \A j \in 1..(i - 1) : list[j].clientId # "" /\ list[j].apiKey # <<>>
    THEN "Client ID is required"
    ELSE IF \E i \in 1..Len(list) : list[i].apiKey = <<>>
    THEN "API Key is required"
    ELSE Null

\* loadSecretClientIds: Object.keys of the secret's data.
loadSecretClientIds(store, name) ==
    IF \E x \in store : x.name = name THEN DataKeys(StoredSecret(store, name).data) ELSE {}

ApiKeysUnmounted ==
    [httpRouteName |-> Null, policyName |-> Null, secretName |-> Null,
     existingClientIds |-> {}, openEdit |-> FALSE, clients |-> <<BlankEntry>>,
     validationErrors |-> <<>>, attempts |-> <<>>]

\* What one run of handleEditSave did: the pairs it built, how it ended,
\* its requests.  The section's `attempts` holds the last run.
KeyAttempt(kv, outcome, requests) ==
    [pairs |-> kv, outcome |-> outcome, requests |-> requests]

ApiKeysHost == "api.example.com"

\* The secret the apiKeyAuth block of the route's policy refers to; the
\* block itself is not one of the blocks of the model.
ApiKeySecretName == "apikey-secret"

\* The section mounts: refresh(), all reads answered.
ApiKeysMount ==
    /\ apiKeys = ApiKeysUnmounted
    /\ LET httpRoute == getHttpRouteForHost(routes, TRUE, TRUE, ApiKeysHost).value
           sp == IF httpRoute = Null THEN Null
                 ELSE findSecurityPolicyForHTTPRoute(policies, TRUE, httpRoute).value
           sn == IF sp = Null THEN Null ELSE ApiKeySecretName
       IN apiKeys' = [apiKeys EXCEPT
              !.httpRouteName = httpRoute,
              !.policyName = sp,
              !.secretName = sn,
              !.existingClientIds = IF sn = Null THEN {}
                                    ELSE loadSecretClientIds(secretStore, sn)]
    /\ UNCHANGED <<objects, secretStore, policies>>

\* The "Edit" button of the section.
ApiKeysOpenEdit ==
    /\ apiKeys.httpRouteName # Null
    /\ apiKeys.secretName # Null
    /\ ~apiKeys.openEdit
    /\ apiKeys' = [apiKeys EXCEPT !.clients = <<BlankEntry>>,
                                  !.validationErrors = <<>>,
                                  !.openEdit = TRUE]
    /\ UNCHANGED <<objects, secretStore, policies>>

setClientId(index, value) ==
    /\ apiKeys.openEdit
    /\ index \in 1..Len(apiKeys.clients)
    /\ apiKeys' = [apiKeys EXCEPT !.clients[index].clientId = value]
    /\ UNCHANGED <<objects, secretStore, policies>>

setApiKey(index, value) ==
    /\ apiKeys.openEdit
    /\ index \in 1..Len(apiKeys.clients)
    /\ apiKeys' = [apiKeys EXCEPT !.clients[index].apiKey = value]
    /\ UNCHANGED <<objects, secretStore, policies>>

addRow ==
    /\ apiKeys.openEdit
    /\ Len(apiKeys.clients) < MaxRows
    /\ apiKeys' = [apiKeys EXCEPT !.clients = Append(@, BlankEntry)]
    /\ UNCHANGED <<objects, secretStore, policies>>

removeRow(index) ==
    /\ apiKeys.openEdit
    /\ index \in 1..Len(apiKeys.clients)
    /\ apiKeys' = [apiKeys EXCEPT
           !.clients = SubSeq(@, 1, index - 1) \o SubSeq(@, index + 1, Len(@))]
    /\ UNCHANGED <<objects, secretStore, policies>>

\* handleEditSave of the section: the upsert of the secret, the PATCH of
\* the policy's extractFrom (a block the model does not hold), refresh().
apiKeysHandleEditSave(secretFault, policyFault) ==
    /\ apiKeys.openEdit
    /\ apiKeys.policyName # Null /\ apiKeys.secretName # Null
    /\ apiKeys.httpRouteName # Null
    /\ LET s == apiKeys
           errMsg == validateClients(s.clients)
       IN IF errMsg # Null
          THEN /\ apiKeys' = [s EXCEPT
                      !.validationErrors = <<errMsg>>,
                      !.attempts = <<KeyAttempt({}, "invalid", <<>>)>>]
               /\ UNCHANGED <<objects, secretStore, policies>>
          ELSE LET sec == upsertOpaqueKeyValueSecret(objects, secretStore, s.secretName,
                                                     ClientPairs(s.clients), secretFault)
                   patched == policyFault = "none" /\ IndexOfName(policies, s.policyName) # 0
                   requests == IF sec.threw THEN sec.requests
                               ELSE sec.requests \o
                                    <<Request("PATCH", "securitypolicies", s.policyName,
                                              NoBody, Status(patched))>>
                   ok == ~sec.threw /\ patched
                   logged == [s EXCEPT
                                 !.validationErrors = <<>>,
                                 !.attempts = <<KeyAttempt(ClientPairs(s.clients),
                                                   IF ok THEN "success" ELSE "failed",
                                                   requests)>>]
               IN /\ objects' = sec.objects
                  /\ secretStore' = sec.secretStore
                  /\ UNCHANGED policies
                  /\ apiKeys' =
                        IF ~ok THEN logged
                        ELSE [logged EXCEPT
                                 !.openEdit = FALSE,
                                 !.existingClientIds =
                                     loadSecretClientIds(sec.secretStore, s.secretName),
                                 !.clients = <<BlankEntry>>]

\* ------------------------------------------------------------------------
\* waitForServiceHttpRoute (knative plugin)
\* ------------------------------------------------------------------------

\* Time is counted in units of intervalMs.  The clock stops the model at
\* MaxClock; a wait with a timeout of at most MaxTimeout ends before that.
MaxTimeout == 2

MaxClock == MaxTimeout + 4

\* An HTTPRoute as the three list calls see it: the selector labels it
\* carries, its visibility label ("absent" when it has none) and whether a
\* backendRef names the service.
WaitRoute(name, labels, visibility, pointsToService) ==
    [name |-> name, labels |-> labels, visibility |-> visibility,
     pointsToService |-> pointsToService]

\* The routes that can appear in the namespace, in the order of the list.
RouteCandidates ==
    << WaitRoute("dm-other", {"domainMappingNamespace"}, "", FALSE),
       WaitRoute("dm-svc", {"domainMappingNamespace"}, "", TRUE),
       WaitRoute("svc", {"service", "route"}, "", FALSE),
       WaitRoute("svc-local", {"route"}, "cluster-local", FALSE),
       WaitRoute("svc-plain", {"service"}, "absent", FALSE) >>

Listed(present, label) ==
    SelectSeq(RouteCandidates, LAMBDA r : r.name \in present /\ label \in r.labels)

\* A list function that lets the failure of a request through.
listHttpRoutesUncaught(present, ok) ==
    [external |-> <<>>, internal |-> <<>>, threw |-> ~ok]

\* listHttpRoutesByVisibilityForService: the three lists merged by name,
\* split by the visibility label; two empty lists on any failure.
listHttpRoutesByVisibilityForService(present, ok) ==
    IF ~ok THEN [external |-> <<>>, internal |-> <<>>, threw |-> FALSE]
    ELSE LET dm == SelectSeq(Listed(present, "domainMappingNamespace"),
                             LAMBDA r : r.pointsToService)
             all == Unique(Listed(present, "service") \o Listed(present, "route") \o dm)
         IN [external |-> SelectSeq(all, LAMBDA r : r.visibility = ""),
             internal |-> SelectSeq(all, LAMBDA r : r.visibility = "cluster-local"),
             threw |-> FALSE]

\* external[0] || internal[0] || null
FirstRoute(lists) ==
    IF Len(lists.external) > 0 THEN lists.external[1].name
    ELSE IF Len(lists.internal) > 0 THEN lists.internal[1].name
    ELSE Null

\* The last poll of a wait: whether its requests failed, what it saw, and
\* Date.now() - start when it came back.
PollRecord(failed, lists, elapsed) ==
    [failed |-> failed, external |-> lists.external, internal |-> lists.internal,
     elapsed |-> elapsed]

NoPoll == PollRecord(FALSE, [external |-> <<>>, internal |-> <<>>], 0)

NotWaiting ==
    [pc |-> "idle", timeoutMs |-> 0, start |-> 0, now |-> 0, present |-> {},
     polls |-> 0, failures |-> 0, last |-> NoPoll, result |-> Null]

\* An HTTPRoute is created in the namespace.
RouteAppears(name) ==
    /\ name \notin waiting.present
    /\ waiting' = [waiting EXCEPT !.present = @ \cup {name}]

\* waitForServiceHttpRoute is called: `start = Date.now()`.
WaitStart(timeoutMs) ==
    /\ waiting.pc = "idle"
    /\ waiting' = [waiting EXCEPT !.pc = "polling", !.timeoutMs = timeoutMs,
                                  !.start = waiting.now]

\* One turn of the loop up to the timer: the list calls come back after
\* `took`, a route ends the wait, else the elapsed time is looked at.
WaitPoll(ok, took) ==
    /\ waiting.pc = "polling"
    /\ waiting.now + took <= MaxClock
    /\ LET lists == listHttpRoutesByVisibilityForService(waiting.present, ok)
           route == FirstRoute(lists)
           now == waiting.now + took
           polled == [waiting EXCEPT
                         !.now = now,
                         !.polls = IF @ < 2 THEN @ + 1 ELSE @,
                         !.failures = IF ~ok /\ @ < 1 THEN @ + 1 ELSE @,
                         !.last = PollRecord(~ok, lists, now - waiting.start)]
       IN waiting' =
             IF lists.threw THEN [polled EXCEPT !.pc = "threw"]
             ELSE IF route # Null THEN [polled EXCEPT !.pc = "done", !.result = route]
             ELSE IF now - waiting.start > waiting.timeoutMs
             THEN [polled EXCEPT !.pc = "done", !.result = Null]
             ELSE [polled EXCEPT !.pc = "sleeping"]

\* The timer of intervalMs fires, on time or late.
WaitWake(late) ==
    /\ waiting.pc = "sleeping"
    /\ waiting.now + 1 + late <= MaxClock
    /\ waiting' = [waiting EXCEPT !.pc = "polling", !.now = @ + 1 + late]

CredentialIdle == htpasswd = Htpasswd("", <<<<>>, <<>>>>, <<NotBuilt, NotBuilt>>)

RaceIdle == clients = [c \in Clients |-> IdleClient]

SecretsIdle ==
    /\ secretStore = {}
    /\ basicAuthSection = BasicAuthUnmounted
    /\ apiKeys = ApiKeysUnmounted

WaitIdle == waiting = NotWaiting

SideIdle ==
    /\ CredentialIdle
    /\ RaceIdle
    /\ SecretsIdle
    /\ WaitIdle

\* ------------------------------------------------------------------------
\* Stores the plugins meet
\* ------------------------------------------------------------------------

HostArgs == {"api.example.com", "other-route", "missing.example.com"}

World(rts, items) == [routes |-> rts, policies |-> items]

BasicAuthOnly(name, httpRouteName) ==
    Policy(name, Present(<<RouteRef(httpRouteName)>>), Absent, Present(<<"basic-auth">>),
           Absent)

WithRules(name, targetRefs, allowCidrs, denyCidrs) ==
    Policy(name, Present(targetRefs),
           Present(AuthorizationRuleList("principal.clientCIDRs", allowCidrs, denyCidrs)),
           Absent, Absent)

OtherRoute == Route("other-route", {"api.example.com"}, "uid-other")

Worlds ==
    { \* the route of the scenario and no policy
      World(<<OtherRoute>>, <<>>),
      \* no route at all
      World(<<>>, <<>>),
      \* a route named like the host listed before the route that carries it
      World(<<Route("api.example.com", {"x.example.com"}, "uid-api"), OtherRoute>>,
            <<BasicAuthOnly("a-policy", "other-route")>>),
      \* two routes carry the host; two policies target the same route, the
      \* first one without rules
      World(<<Route("a-route", {"api.example.com"}, "uid-a"), OtherRoute>>,
            <<BasicAuthOnly("a-policy", "other-route"),
              WithRules("z-policy", <<RouteRef("other-route")>>, <<CidrTen>>, <<>>)>>),
      \* the policy named like the route targets another route; a policy
      \* targets a Gateway of the route's name
      World(<<Route("a-route", {}, "uid-a"), OtherRoute>>,
            <<WithRules("a-policy", <<TargetRef(GatewayGroup, "Gateway", "other-route")>>,
                        <<CidrTen>>, <<>>),
              WithRules("other-route",
                        <<TargetRef("example.io", "HTTPRoute", "other-route"),
                          RouteRef("a-route")>>, <<>>, <<CidrLan>>)>>) }

PolicyIdle ==
    /\ api = "gateway"
    /\ routes = <<>>
    /\ policies = <<>>
    /\ history = <<>>
    /\ lookup = NoLookup
    /\ calls = 0

TrafficIdle ==
    /\ traffic = <<>>
    /\ revPercents = LoadRevPercents(<<>>)
    /\ revTags = LoadRevTags(<<>>)
    /\ latestPercent = 0
    /\ latestTags = <<>>
    /\ pendingTagInputs = [k \in Rows |-> ""]
    /\ tagInputValue = [k \in Rows |-> ""]
    /\ savingTraffic = FALSE
    /\ inflight = NoInflight
    /\ attempt = NoAttempt
    /\ notes = <<>>
    /\ edits = 0

InitWorld ==
    /\ api \in ApiRevisions
    /\ \E w \in Worlds : routes = w.routes /\ policies = w.policies
    /\ history = <<>>
    /\ lookup = NoLookup
    /\ calls = 0
    /\ TrafficIdle
    /\ SideIdle
    /\ UiIdle

NextPolicy ==
    \/ \E r \in RouteArgs, lists \in CidrListPairs, fault \in Faults :
          CallCreateIpAccess(r, lists, fault) /\ UNCHANGED <<trafficVars, uiVars, engineVars, sideVars>>
    \/ \E r \in RouteArgs, fault \in Faults :
          CallCreateBasicAuth(r, fault) /\ UNCHANGED <<trafficVars, uiVars, engineVars, sideVars>>
    \/ \E i \in 1..Len(policies), lists \in EditedListPairs, fault \in Faults :
          CallUpdateIpAccess(i, lists, fault) /\ UNCHANGED <<trafficVars, uiVars, engineVars, sideVars>>

SpecPolicy == InitWorld /\ [][NextPolicy]_vars

NextLocate ==
    \/ \E host \in HostArgs, getOk \in BOOLEAN, listOk \in BOOLEAN :
          LocateRoute(host, getOk, listOk) /\ UNCHANGED <<trafficVars, uiVars, engineVars, sideVars>>
    \/ \E r \in RouteArgs, policiesOk \in BOOLEAN :
          LocatePolicy(r, policiesOk) /\ UNCHANGED <<trafficVars, uiVars, engineVars, sideVars>>
    \/ \E host \in HostArgs, getOk \in BOOLEAN, listOk \in BOOLEAN, policiesOk \in BOOLEAN :
          DetectIpAccess(host, getOk, listOk, policiesOk) /\ UNCHANGED <<trafficVars, uiVars, engineVars, sideVars>>
    \/ \E host \in HostArgs, getOk \in BOOLEAN, listOk \in BOOLEAN, policiesOk \in BOOLEAN :
          DetectBasicAuth(host, getOk, listOk, policiesOk) /\ UNCHANGED <<trafficVars, uiVars, engineVars, sideVars>>

SpecLocate == InitWorld /\ [][NextLocate]_vars

\* ---- every operation of the engine ----

RetryOf(name, httpRouteName) ==
    TrafficPolicy(name, Present(<<RouteRef(httpRouteName)>>),
                  Present(<<RetryBlock(RetryParams(3, ""))>>), Absent)

\* The stores the engine meets: no policy of either kind and no secret;
\* or two access policies and a traffic policy of one route, and its secret.
StoredWorld(rts, items, btps, objs) ==
    [routes |-> rts, policies |-> items, trafficPolicies |-> btps, objects |-> objs]

EngineWorlds ==
    { StoredWorld(<<OtherRoute>>, <<>>, <<>>, {}),
      StoredWorld(<<Route("a-route", {"api.example.com"}, "uid-a"), OtherRoute>>,
                  <<BasicAuthOnly("a-policy", "other-route"),
                    WithRules("z-policy", <<RouteRef("other-route")>>, <<CidrTen>>, <<>>)>>,
                  <<RetryOf("z-policy", "other-route")>>,
                  {Object("secrets", SecretNameOf("other-route"))}) }

InitEngine ==
    /\ api \in ApiRevisions
    /\ \E w \in EngineWorlds :
          /\ routes = w.routes
          /\ policies = w.policies
          /\ trafficPolicies = w.trafficPolicies
          /\ objects = w.objects
    /\ history = <<>>
    /\ lookup = NoLookup
    /\ calls = 0
    /\ TrafficIdle
    /\ SideIdle
    /\ section = Unmounted
    /\ dialog = InitialForm
    /\ run = NoRun
    /\ typed = 0
    /\ retrySection = RetryUnmounted

EngineRest == <<trafficVars, section, dialog, run, typed, retrySection, sideVars>>

NextEngine ==
    \/ \E r \in RouteArgs, lists \in CidrListPairs, fault \in Faults :
          /\ CallCreateIpAccess(r, lists, fault)
          /\ UNCHANGED <<EngineRest, trafficPolicies, objects>>
    \/ \E r \in RouteArgs, fault \in Faults :
          /\ CallCreateBasicAuth(r, fault)
          /\ UNCHANGED <<EngineRest, trafficPolicies, objects>>
    \/ \E i \in 1..Len(policies), lists \in EditedListPairs, fault \in Faults :
          /\ CallUpdateIpAccess(i, lists, fault)
          /\ UNCHANGED <<EngineRest, trafficPolicies, objects>>
    \/ \E r \in RouteArgs, fault \in Faults :
          CallDisableBasicAuth(r, fault) /\ UNCHANGED EngineRest
    \/ \E i \in 1..Len(policies), fault \in Faults :
          CallDisableIpAccess(i, fault) /\ UNCHANGED EngineRest
    \/ \E r \in RouteArgs, params \in RetryArgs, fault \in Faults :
          CallCreateRetry(r, params, fault) /\ UNCHANGED EngineRest
    \/ \E i \in 1..Len(trafficPolicies), params \in RetryArgs, fault \in Faults :
          CallUpdateRetry(i, params, fault) /\ UNCHANGED EngineRest
    \/ \E i \in 1..Len(trafficPolicies), fault \in Faults :
          CallDeleteRetry(i, fault) /\ UNCHANGED EngineRest
    \/ \E r \in RouteArgs, fault \in Faults :
          CallUpsertSecret(r, fault) /\ UNCHANGED EngineRest

SpecEngine == InitEngine /\ [][NextEngine]_vars

\* ---- the retry section at work ----

\* What the user puts into the retry form.
RetryFormInputs == RetryArgs \cup {RetryParams(0 - 1, "100ms")}

\* The section belongs to the current revision of the envoy-gateway plugin
\* (it calls deleteRetryBackendTrafficPolicy).
InitRetry ==
    /\ api = "gateway"
    /\ \E w \in EngineWorlds :
          /\ routes = w.routes
          /\ policies = w.policies
          /\ trafficPolicies = w.trafficPolicies
          /\ objects = w.objects
    /\ history = <<>>
    /\ lookup = NoLookup
    /\ calls = 0
    /\ TrafficIdle
    /\ SideIdle
    /\ section = Unmounted
    /\ dialog = InitialForm
    /\ run = NoRun
    /\ typed = 0
    /\ retrySection = RetryUnmounted

NextRetry ==
    \/ \E host \in HostArgs, readsOk \in BOOLEAN : MountRetry(host, readsOk)
    \/ OpenRetryDialog
    \/ CloseRetryDialog
    \/ \E params \in RetryFormInputs : ChangeRetryFields(params)
    \/ \E fault \in Faults, readsOk \in BOOLEAN : retryHandleEnable(fault, readsOk)
    \/ \E fault \in Faults, readsOk \in BOOLEAN : retryHandleSave(fault, readsOk)
    \/ \E fault \in Faults, readsOk \in BOOLEAN : retryHandleDelete(fault, readsOk)

SpecRetry == InitRetry /\ [][NextRetry]_vars

\* ------------------------------------------------------------------------
\* The forms at work
\* ------------------------------------------------------------------------

\* What the user puts into the fields of the create dialog.
FieldInputs ==
    [namespace |-> {"", "ns"}, name |-> {"", "svc"}, image |-> {"", "img"},
     port |-> {<<>>, <<"8", "0", "8", "0">>, <<"7", "0", "0", "0", "0">>},
     minScale |-> {<<"0">>, <<"-", "1">>},
     visibility |-> {"external", "internal"},
     envKeys |-> {<<>>, <<"KEY">>},
     enableBasicAuth |-> BOOLEAN,
     basicAuthUsername |-> {<<>>, <<"a">>},
     basicAuthPassword |-> {<<>>, <<"p">>},
     enableIpAccessControl |-> BOOLEAN,
     ipAllowCidrs |-> FormRows, ipDenyCidrs |-> FormRows]

\* The route waitForServiceHttpRoute comes back with: one of the listed
\* routes, or none when it times out.
AwaitedRoutes == {Null} \cup {routes[i].name : i \in 1..Len(routes)}

FormWorlds ==
    { World(<<OtherRoute>>, <<>>),
      World(<<Route("a-route", {"api.example.com"}, "uid-a"), OtherRoute>>,
            <<BasicAuthOnly("a-policy", "other-route"),
              WithRules("z-policy", <<RouteRef("other-route")>>, <<CidrTen>>, <<>>)>>) }

\* The section calls disableIpAccessSecurityPolicy, which only the current
\* revision of the envoy-gateway plugin's api/envoy.ts exports.
InitForm ==
    /\ api \in {"gateway", "knative"}
    /\ \E w \in FormWorlds : routes = w.routes /\ policies = w.policies
    /\ history = <<>>
    /\ lookup = NoLookup
    /\ calls = 0
    /\ TrafficIdle
    /\ SideIdle
    /\ UiIdle

NextForm ==
    \/ \E host \in HostArgs, readsOk \in BOOLEAN : Mount(host, readsOk) /\ UNCHANGED <<trafficVars, engineVars, sideVars>>
    \/ OpenDialog /\ UNCHANGED <<trafficVars, engineVars, sideVars>>
    \/ CloseDialog /\ UNCHANGED <<trafficVars, engineVars, sideVars>>
    \/ \E rows \in FormRows : EditAllowRows(rows) /\ UNCHANGED <<trafficVars, engineVars, sideVars>>
    \/ \E rows \in FormRows : EditDenyRows(rows) /\ UNCHANGED <<trafficVars, engineVars, sideVars>>
    \/ \E fault \in Faults, readsOk \in BOOLEAN :
          handleEnable(fault, readsOk) /\ UNCHANGED <<trafficVars, engineVars, sideVars>>
    \/ \E fault \in Faults, readsOk \in BOOLEAN :
          handleSave(fault, readsOk) /\ UNCHANGED <<trafficVars, engineVars, sideVars>>
    \/ OpenCreateDialog /\ UNCHANGED <<trafficVars, engineVars, sideVars>>
    \/ \E field \in DOMAIN FieldInputs : \E value \in FieldInputs[field] :
          ChangeField(field, value) /\ UNCHANGED <<trafficVars, engineVars, sideVars>>
    \/ \E fault \in DialogFaults, route \in AwaitedRoutes :
          handleSubmit(fault, route) /\ UNCHANGED <<trafficVars, engineVars, sideVars>>

SpecForm == InitForm /\ [][NextForm]_vars

InitTraffic ==
    /\ traffic \in ServerTrafficSeeds
    /\ revPercents = LoadRevPercents(traffic)
    /\ revTags = LoadRevTags(traffic)
    /\ latestPercent = LoadLatestPercent(traffic)
    /\ latestTags = LoadLatestTags(traffic)
    /\ pendingTagInputs = [k \in Rows |-> ""]
    /\ tagInputValue = [k \in Rows |-> ""]
    /\ savingTraffic = FALSE
    /\ inflight = NoInflight
    /\ attempt = NoAttempt
    /\ notes = <<>>
    /\ edits = 0
    /\ PolicyIdle
    /\ UiIdle
    /\ SideIdle

NextTraffic ==
    \/ LoadEffect /\ UNCHANGED <<policyVars, uiVars, engineVars, sideVars>>
    \/ \E r \in Revisions, w \in WeightInputs : SetRevPercent(r, w) /\ UNCHANGED <<policyVars, uiVars, engineVars, sideVars>>
    \/ \E w \in WeightInputs : SetLatestPercent(w) /\ UNCHANGED <<policyVars, uiVars, engineVars, sideVars>>
    \/ \E k \in Rows, text \in TagTexts : TagInputChange(k, text) /\ UNCHANGED <<policyVars, uiVars, engineVars, sideVars>>
    \/ \E k \in Rows : ConfirmTag(k) /\ UNCHANGED <<policyVars, uiVars, engineVars, sideVars>>
    \/ \E k \in Rows : \E i \in 1..Len(RowTags(k)) : RemoveTag(k, i) /\ UNCHANGED <<policyVars, uiVars, engineVars, sideVars>>
    \/ onSaveTraffic /\ UNCHANGED <<policyVars, uiVars, engineVars, sideVars>>
    \/ onSaveTrafficPorted /\ UNCHANGED <<policyVars, uiVars, engineVars, sideVars>>
    \/ \E outcome \in UpdateOutcomes : SaveResolve(outcome) /\ UNCHANGED <<policyVars, uiVars, engineVars, sideVars>>

SpecTraffic == InitTraffic /\ [][NextTraffic]_vars

\* ---- the editor loads and saves ----

\* Entries a stored list is made of: the two listed revisions, "latest",
\* and a revision that the list of revisions does not hold (the service
\* and its revisions are fetched by two requests).
SeedEntries ==
    { Target("revA", FALSE, Pct(100), ""), Target("revA", FALSE, Pct(60), ""),
      Target("revA", FALSE, Pct(60), "t1"), Target("revA", FALSE, 0, "t1"),
      Target("revB", FALSE, Pct(40), ""), Target("revB", FALSE, 0, "t2"),
      Target("", TRUE, Pct(100), ""), Target("", TRUE, Pct(40), ""),
      Target("", TRUE, 0, "t3"),
      Target("revGone", FALSE, 0, "old"), Target("revGone", FALSE, Pct(40), "") }

\* Lists the server accepts: the weights add up to 100 and no tag is used
\* twice.
SeedTags(list) == SelectSeq([i \in 1..Len(list) |-> list[i].tag], LAMBDA t : t # "")

RoundTripSeeds ==
    { list \in UNION {[1..n -> SeedEntries] : n \in 1..3} :
        /\ SeqSum([i \in 1..Len(list) |-> list[i].percent]) = Pct(100)
        /\ ~HasDuplicate(SeedTags(list)) }

\* The component before its first effect.
InitRoundTrip ==
    /\ traffic \in RoundTripSeeds
    /\ revPercents = LoadRevPercents(<<>>)
    /\ revTags = LoadRevTags(<<>>)
    /\ latestPercent = 0
    /\ latestTags = <<>>
    /\ pendingTagInputs = [k \in Rows |-> ""]
    /\ tagInputValue = [k \in Rows |-> ""]
    /\ savingTraffic = FALSE
    /\ inflight = NoInflight
    /\ attempt = NoAttempt
    /\ notes = <<>>
    /\ edits = 0
    /\ PolicyIdle
    /\ UiIdle
    /\ SideIdle

NextRoundTrip ==
    \/ LoadEffect /\ UNCHANGED <<policyVars, uiVars, engineVars, sideVars>>
    \/ onSaveTraffic /\ UNCHANGED <<policyVars, uiVars, engineVars, sideVars>>
    \/ \E outcome \in UpdateOutcomes :
          SaveResolve(outcome) /\ UNCHANGED <<policyVars, uiVars, engineVars, sideVars>>

SpecRoundTrip == InitRoundTrip /\ [][NextRoundTrip]_vars

\* ---- the credential line ----

InitCredential ==
    /\ \E u \in Usernames, p1 \in Passwords, p2 \in Passwords :
          htpasswd = Htpasswd(u, <<p1, p2>>, <<NotBuilt, NotBuilt>>)
    /\ PolicyIdle
    /\ TrafficIdle
    /\ UiIdle
    /\ RaceIdle
    /\ SecretsIdle
    /\ WaitIdle

NextCredential ==
    \E i \in 1..2 :
        /\ BuildLine(i)
        /\ UNCHANGED <<trafficVars, policyVars, uiVars, engineVars, clients, secretStore,
                       basicAuthSection, apiKeys, waiting>>

SpecCredential == InitCredential /\ [][NextCredential]_vars

\* ---- the basic auth section at work ----

\* The line of an earlier password, as a build of the plugin wrote it.
StaleLine == "admin:{SHA}W6ph5Mm5Pz8GgiULbPgzG37mj9g="

RouteOwner == Present(<<[kind |-> "HTTPRoute", name |-> "other-route", uid |-> "uid-other"]>>)

\* The stores the section meets: nothing for the route; the secret of an
\* earlier configuration whose policy is gone; an IP access policy of the
\* route.
SecretWorlds ==
    { Stores({}, {}, <<>>),
      Stores({Object("secrets", "basic-auth")},
             {Secret("basic-auth", HtpasswdData("admin", StaleLine), RouteOwner)},
             <<>>),
      Stores({}, {}, <<WithRules("other-route", <<RouteRef("other-route")>>, <<CidrTen>>, <<>>)>>) }

\* What goes wrong in the upsert of the secret: nothing, the fetch of the
\* route, the write.
SecretFaults == {"none", "route", "write"}

\* What the user types into the dialog.
FormUsernames == {"", "admin"}

FormPasswords == {<<>>, <<97, 98, 99>>}

\* The section belongs to the current revision of the envoy-gateway plugin
\* (it hands the route's name to upsertBasicAuthSecret).  The line of the
\* credential the user will type is worked out once.
InitEnable ==
    /\ api = "gateway"
    /\ htpasswd = Htpasswd("admin", <<<<97, 98, 99>>>>,
                           <<buildHtpasswdLine("admin", <<97, 98, 99>>)>>)
    /\ routes = <<OtherRoute>>
    /\ \E w \in SecretWorlds :
          /\ objects = w.objects
          /\ secretStore = w.secretStore
          /\ policies = w.policies
    /\ history = <<>>
    /\ lookup = NoLookup
    /\ calls = 0
    /\ TrafficIdle
    /\ trafficPolicies = <<>>
    /\ retrySection = RetryUnmounted
    /\ section = Unmounted
    /\ dialog = InitialForm
    /\ run = NoRun
    /\ typed = 0
    /\ RaceIdle
    /\ basicAuthSection = BasicAuthUnmounted
    /\ apiKeys = ApiKeysUnmounted
    /\ WaitIdle

SecretsRest ==
    <<trafficVars, api, routes, history, lookup, calls, section, dialog, run, typed,
      engineVars, htpasswd, clients, waiting>>

NextEnable ==
    \/ BasicAuthMount /\ UNCHANGED <<SecretsRest, apiKeys>>
    \/ BasicAuthOpenEnable /\ UNCHANGED <<SecretsRest, apiKeys>>
    \/ \E u \in FormUsernames, p \in FormPasswords :
          BasicAuthChangeFields(u, p) /\ UNCHANGED <<SecretsRest, apiKeys>>
    \/ \E secretFault \in SecretFaults, policyFault \in Faults \ {"route"} :
          basicAuthHandleEnableSave(secretFault, policyFault)
              /\ UNCHANGED <<SecretsRest, apiKeys>>

SpecEnable == InitEnable /\ [][NextEnable]_vars

\* ---- the API key section at work ----

KeyOne == <<107, 49>>

KeyTwo == <<107, 50>>

ApiKeyPolicy ==
    Policy("other-route-apikey-auth", Present(<<RouteRef("other-route")>>), Absent, Absent,
           Absent)

\* The stores the section meets: the policy of the route and its secret
\* with two clients or with one, or the policy whose secret is gone.
KeyWorlds ==
    { Stores({Object("secrets", ApiKeySecretName)},
             {Secret(ApiKeySecretName,
                     EncodedPairs({<<"alice", KeyOne>>, <<"bob", KeyTwo>>}), Absent)},
             <<ApiKeyPolicy>>),
      Stores({Object("secrets", ApiKeySecretName)},
             {Secret(ApiKeySecretName, EncodedPairs({<<"alice", KeyOne>>}), Absent)},
             <<ApiKeyPolicy>>),
      Stores({}, {}, <<ApiKeyPolicy>>) }

\* What the user types into a row of the clients form.
ClientIdInputs == {"", "alice", "carol"}

ApiKeyInputs == {<<>>, KeyTwo}

\* The API key functions are those of the earlier revision of api/envoy.ts.
InitApiKeys ==
    /\ api = "legacy"
    /\ routes = <<OtherRoute>>
    /\ \E w \in KeyWorlds :
          /\ objects = w.objects
          /\ secretStore = w.secretStore
          /\ policies = w.policies
    /\ history = <<>>
    /\ lookup = NoLookup
    /\ calls = 0
    /\ TrafficIdle
    /\ trafficPolicies = <<>>
    /\ retrySection = RetryUnmounted
    /\ section = Unmounted
    /\ dialog = InitialForm
    /\ run = NoRun
    /\ typed = 0
    /\ CredentialIdle
    /\ RaceIdle
    /\ basicAuthSection = BasicAuthUnmounted
    /\ apiKeys = ApiKeysUnmounted
    /\ WaitIdle

NextApiKeys ==
    \/ ApiKeysMount /\ UNCHANGED <<SecretsRest, basicAuthSection>>
    \/ ApiKeysOpenEdit /\ UNCHANGED <<SecretsRest, basicAuthSection>>
    \/ \E i \in 1..MaxRows, v \in ClientIdInputs :
          setClientId(i, v) /\ UNCHANGED <<SecretsRest, basicAuthSection>>
    \/ \E i \in 1..MaxRows, v \in ApiKeyInputs :
          setApiKey(i, v) /\ UNCHANGED <<SecretsRest, basicAuthSection>>
    \/ addRow /\ UNCHANGED <<SecretsRest, basicAuthSection>>
    \/ \E i \in 1..MaxRows : removeRow(i) /\ UNCHANGED <<SecretsRest, basicAuthSection>>
    \/ \E secretFault \in {"none", "list", "write"}, policyFault \in {"none", "write"} :
          apiKeysHandleEditSave(secretFault, policyFault)
              /\ UNCHANGED <<SecretsRest, basicAuthSection>>

SpecApiKeys == InitApiKeys /\ [][NextApiKeys]_vars

\* ---- the wait for the route of a new service ----

InitWait ==
    /\ PolicyIdle
    /\ TrafficIdle
    /\ UiIdle
    /\ SideIdle

WaitRest == <<trafficVars, policyVars, uiVars, engineVars, htpasswd, clients, secretStore,
              basicAuthSection, apiKeys>>

NextWait ==
    \/ \E i \in 1..Len(RouteCandidates) :
          RouteAppears(RouteCandidates[i].name) /\ UNCHANGED WaitRest
    \/ \E timeoutMs \in 1..MaxTimeout : WaitStart(timeoutMs) /\ UNCHANGED WaitRest
    \/ \E ok \in BOOLEAN, took \in 0..1 : WaitPoll(ok, took) /\ UNCHANGED WaitRest
    \/ \E late \in 0..1 : WaitWake(late) /\ UNCHANGED WaitRest

SpecWait == InitWait /\ [][NextWait]_vars

\* Every list call comes back and every timer fires.
SpecWaitFair ==
    /\ SpecWait
    /\ WF_vars(\E ok \in BOOLEAN, took \in 0..1 : WaitPoll(ok, took) /\ UNCHANGED WaitRest)
    /\ WF_vars(\E late \in 0..1 : WaitWake(late) /\ UNCHANGED WaitRest)

\* ---- two instances at work ----

\* The store the two instances share: a service with a traffic list, a
\* policy of another route, and the route of the sections without a policy.
RaceWorld ==
    World(<<Route("a-route", {"api.example.com"}, "uid-a"), OtherRoute>>,
          <<WithRules("z-policy", <<RouteRef("a-route")>>, <<CidrTen>>, <<>>)>>)

InitRace ==
    /\ api \in ApiRevisions
    /\ routes = RaceWorld.routes
    /\ policies = RaceWorld.policies
    /\ history = <<>>
    /\ lookup = NoLookup
    /\ calls = 0
    /\ traffic = <<Target("revA", FALSE, Pct(60), "t1"), Target("", TRUE, Pct(40), "")>>
    /\ revPercents = LoadRevPercents(<<>>)
    /\ revTags = LoadRevTags(<<>>)
    /\ latestPercent = 0
    /\ latestTags = <<>>
    /\ pendingTagInputs = [k \in Rows |-> ""]
    /\ tagInputValue = [k \in Rows |-> ""]
    /\ savingTraffic = FALSE
    /\ inflight = NoInflight
    /\ attempt = NoAttempt
    /\ notes = <<>>
    /\ edits = 0
    /\ UiIdle
    /\ SideIdle

RaceRest ==
    <<revPercents, revTags, latestPercent, latestTags, pendingTagInputs, tagInputValue,
      savingTraffic, inflight, attempt, notes, edits, api, routes, history, lookup, calls,
      uiVars, engineVars, htpasswd, secretStore, basicAuthSection, apiKeys, waiting>>

NextRace ==
    \/ \E c \in Clients, list \in RaceTrafficLists : RaceStartSave(c, list) /\ UNCHANGED RaceRest
    \/ \E c \in Clients, outcome \in UpdateOutcomes : RacePatchTraffic(c, outcome) /\ UNCHANGED RaceRest
    \/ \E c \in Clients, i \in 1..Len(policies), lists \in EditedListPairs :
          RaceStartUpdate(c, i, lists) /\ UNCHANGED RaceRest
    \/ \E c \in Clients, fault \in Faults : RacePatchPolicy(c, fault) /\ UNCHANGED RaceRest
    \/ \E c \in Clients, kind \in EnableKinds : RaceStartEnable(c, kind) /\ UNCHANGED RaceRest
    \/ \E c \in Clients, listOk \in BOOLEAN : RaceLookup(c, listOk) /\ UNCHANGED RaceRest
    \/ \E c \in Clients, fault \in Faults : RaceWrite(c, fault) /\ UNCHANGED RaceRest

SpecRace == InitRace /\ [][NextRace]_vars

\* ------------------------------------------------------------------------
\* Properties of the traffic editor
\* ------------------------------------------------------------------------

\* The sum of the weights of all rows, "latest" included.
WeightSum == SeqSum(RevPercentList(revPercents)) + latestPercent

\* The tag set of a row as confirmed, and with the text of its input merged in.
CommittedTagSet == [k \in Rows |-> Elems(TrimFilter(RowTags(k)))]

MergedTagSet == [k \in Rows |-> CommittedTagSet[k] \cup ({Trim(tagInputValue[k])} \ {""})]

SharedTag(tagSets) == \E a, b \in Rows : a # b /\ tagSets[a] \cap tagSets[b] # {}

\* A step that issues the PATCH of updateTraffic.
RequestIssued == inflight.handler = "none" /\ inflight'.handler # "none"

ErrorNoted(ns) == \E i \in 1..Len(ns) : ns[i].kind = "error"

\* C1: a save attempt whose merged view has a weight sum other than 100, or
\* a tag in two rows, issues no write and reports a validation failure; in
\* particular the Save chip stays disabled while the weights do not add up
\* to 100 (loaded {revA: 60, latest: 40}, revA set to 30: no save until
\* latest is 70).
C1_InvalidSaveRejected ==
    /\ [](WeightSum # Pct(100) => ~SaveEnabled)
    /\ [][ /\ (onSaveTraffic /\ (WeightSum # Pct(100) \/ SharedTag(MergedTagSet)))
              => (inflight' = inflight /\ traffic' = traffic /\ ErrorNoted(notes'))
           /\ (onSaveTrafficPorted /\ (WeightSum # Pct(100) \/ SharedTag(CommittedTagSet)))
              => (inflight' = inflight /\ traffic' = traffic)
           /\ RequestIssued
              => /\ WeightSum = Pct(100)
                 /\ IF inflight'.handler = "current"
                    THEN ~SharedTag(MergedTagSet) ELSE ~SharedTag(CommittedTagSet)
         ]_vars

\* A save was attempted with a tag typed in one row that another row
\* already carries, and was rejected.
C1_Witness ==
    /\ attempt.handler = "current"
    /\ attempt.outcome = "rejected"
    /\ \E a, b \in Rows :
          /\ a # b
          /\ Trim(attempt.inputs[a]) # ""
          /\ Trim(attempt.inputs[a]) \in
                Elems(IF b = LatestKey THEN attempt.ltags ELSE attempt.tags[b])
    /\ notes = <<Note("error", "Tags must be unique")>>
    /\ inflight = NoInflight

\* The row a traffic target belongs to.
TargetRow(t) == IF t.latestRevision THEN LatestKey ELSE t.revisionName

PercentSum(list) == SeqSum([i \in 1..Len(list) |-> list[i].percent])

TagInTwoRows(list) ==
    \E i, j \in 1..Len(list) :
        /\ list[i].tag # ""
        /\ list[i].tag = list[j].tag
        /\ TargetRow(list[i]) # TargetRow(list[j])

\* C2: every list sent to the server has percents that add up to exactly
\* 100 and no tag carried by entries of two different rows.
C2_SentListValid ==
    inflight.handler # "none"
        => PercentSum(inflight.traffic) = Pct(100) /\ ~TagInTwoRows(inflight.traffic)

\* A list with a weighted entry and tag entries of two rows is in flight.
C2_Witness ==
    /\ inflight.handler # "none"
    /\ \E i, j \in 1..Len(inflight.traffic) :
          /\ inflight.traffic[i].tag # ""
          /\ inflight.traffic[j].tag # ""
          /\ TargetRow(inflight.traffic[i]) # TargetRow(inflight.traffic[j])
    /\ \E i \in 1..Len(inflight.traffic) : inflight.traffic[i].percent > 0

\* A weight that is a whole number of percent between 0 and 100.
IntegerInRange(w) == w % PercentUnit = 0 /\ w >= Pct(0) /\ w <= Pct(100)

AllWeightsIntegerInRange ==
    /\ \A r \in Revisions : IntegerInRange(revPercents[r])
    /\ IntegerInRange(latestPercent)

\* C16: the Save chip is enabled, and a write is issued, only while every
\* weight (each revision and "latest") is an integer between 0 and 100.
C16_SaveOnlyIntegerWeights ==
    /\ [](SaveEnabled => AllWeightsIntegerInRange)
    /\ [][RequestIssued => AllWeightsIntegerInRange]_vars

\* A tag input holds text that is more than white space.
FragmentPending == \E k \in Rows : Trim(tagInputValue[k]) # ""

\* C17: while a tag input holds a non-empty uncommitted fragment the Save
\* chip is disabled, and the error of that condition is not the error of
\* weights that do not add up to 100.
C17_PendingFragmentBlocksSave ==
    FragmentPending
        => /\ ~SaveEnabled
           /\ pendingTagError(tagInputValue) # "Total traffic must equal 100%"

\* The weight and the tag set of a row as the last onSaveTraffic call read
\* them; the current handler merges the text of the row's input.
AttemptWeight(k) == IF k = LatestKey THEN attempt.lp ELSE attempt.percents[k]

AttemptTagSet(k) ==
    Elems(TrimFilter(IF k = LatestKey THEN attempt.ltags ELSE attempt.tags[k]))
    \cup (IF attempt.handler = "current" THEN {Trim(attempt.inputs[k])} \ {""} ELSE {})

\* The positions of a list that hold entries of row k.
EntriesOfRow(list, k) == {i \in 1..Len(list) : TargetRow(list[i]) = k}

SaveSucceeded ==
    /\ attempt.outcome = "sent"
    /\ inflight.handler = "none"
    /\ \E i \in 1..Len(notes) : notes[i].kind = "success"

\* C18: the list a save writes has, for each row (revision or "latest")
\* with a weight above 0, exactly one entry with that weight and no tag,
\* and for each tag of the row's tag set (the fragment merged at save time
\* included) exactly one entry with percent 0 carrying that tag; a row at 0
\* with no tags contributes no entry, and there are no other entries.
C18_WrittenListShape ==
    attempt.outcome = "sent"
        => /\ \A i \in 1..Len(attempt.sent) : TargetRow(attempt.sent[i]) \in Rows
           /\ \A k \in Rows :
                 LET own == EntriesOfRow(attempt.sent, k)
                     untagged == {i \in own : attempt.sent[i].tag = ""}
                 IN /\ Cardinality(untagged) = (IF AttemptWeight(k) > 0 THEN 1 ELSE 0)
                    /\ \A i \in untagged : attempt.sent[i].percent = AttemptWeight(k)
                    /\ \A i \in own \ untagged :
                          /\ attempt.sent[i].tag \in AttemptTagSet(k)
                          /\ attempt.sent[i].percent = 0
                    /\ \A tag \in AttemptTagSet(k) :
                          Cardinality({i \in own : attempt.sent[i].tag = tag}) = 1
                    /\ (AttemptWeight(k) = 0 /\ AttemptTagSet(k) = {}) => own = {}

\* A save succeeded whose list has a weighted row, a tag that was still a
\* fragment in its input, and no entry for a row at 0 with no tags.
C18_Witness ==
    /\ SaveSucceeded
    /\ attempt.handler = "current"
    /\ \E k \in Rows : AttemptWeight(k) > 0
    /\ \E k \in Rows : AttemptWeight(k) = 0 /\ AttemptTagSet(k) = {}
    /\ \E k \in Rows :
          /\ Trim(attempt.inputs[k]) # ""
          /\ Trim(attempt.inputs[k]) \notin
                Elems(IF k = LatestKey THEN attempt.ltags ELSE attempt.tags[k])

\* C19: after a successful save the server's traffic list is exactly the
\* list the save constructed; an entry of the list the server had before
\* survives only if the new list has it too.
C19_ServerListReplaced ==
    /\ [](SaveSucceeded => traffic = attempt.sent)
    /\ [][ (\E outcome \in UpdateOutcomes : SaveResolve(outcome))
              /\ (\E i \in 1..Len(notes') : notes'[i].kind = "success")
           => /\ traffic' = inflight.traffic
              /\ \A i \in 1..Len(traffic) :
                    traffic[i] \in Elems(traffic') => traffic[i] \in Elems(inflight.traffic)
         ]_vars

\* A save succeeded, and whichever list the service was loaded with, one
\* of its entries is no longer on the server.
C19_Witness ==
    /\ SaveSucceeded
    /\ traffic = attempt.sent
    /\ \A seed \in ServerTrafficSeeds :
          \E i \in 1..Len(seed) : seed[i] \notin Elems(traffic)

\* The weights, tag sets and input texts of the editor.
editorState == <<revPercents, latestPercent, revTags, latestTags, tagInputValue,
                 pendingTagInputs>>

\* The editor is as the last onSaveTraffic call read it.
EditorAsAttempted ==
    /\ revPercents = attempt.percents
    /\ latestPercent = attempt.lp
    /\ revTags = attempt.tags
    /\ latestTags = attempt.ltags
    /\ tagInputValue = attempt.inputs

\* The list a click on Save would build from an editor state.
RetryList(handler, percents, lp, tags, ltags, inputs) ==
    IF handler = "current"
    THEN BuildTraffic(percents, lp, mergedRevTags(tags, inputs), mergedLatestTags(ltags, inputs))
    ELSE BuildTrafficPorted(percents, lp, tags, ltags)

SaveFailed ==
    /\ attempt.outcome = "sent"
    /\ inflight.handler = "none"
    /\ ~savingTraffic
    /\ notes # <<>>
    /\ notes[Len(notes)] = Note("error", "Failed to update traffic")

\* C20: when the write of a save fails, a failure is notified and the
\* weights, the tag sets and the texts of the tag inputs are what they were
\* before the attempt (neither the click nor the failure changes them), the
\* Save chip is no longer held by the attempt, and a retry from the
\* untouched editor builds the list that was sent.
C20_FailedSaveKeepsEdits ==
    /\ [][ RequestIssued => UNCHANGED editorState ]_vars
    /\ [][ (SaveResolve("failed") \/ SaveResolve("badResponse"))
              => /\ ErrorNoted(notes')
                 /\ ~(\E i \in 1..Len(notes') : notes'[i].kind = "success")
                 /\ UNCHANGED editorState
                 /\ ~savingTraffic'
                 /\ EditorAsAttempted
                       => RetryList(attempt.handler, revPercents', latestPercent', revTags',
                                    latestTags', tagInputValue') = attempt.sent
         ]_vars

\* A save failed on the server's unchanged list while the editor held a
\* changed weight or a fragment in a tag input, and the editor still
\* holds what the attempt read.
C20_Witness ==
    /\ SaveFailed
    /\ attempt.handler = "current"
    /\ traffic # attempt.sent
    /\ EditorAsAttempted
    /\ \E k \in Rows : Trim(tagInputValue[k]) # ""
    /\ RetryList("current", revPercents, latestPercent, revTags, latestTags, tagInputValue)
          = attempt.sent

\* ------------------------------------------------------------------------
\* Properties of the upsert engine
\* ------------------------------------------------------------------------

UpsertFns == {"createIpAccessSecurityPolicy", "createSecurityPolicyForHTTPRoute"}

IpAccessFns == {"createIpAccessSecurityPolicy", "updateIpAccessSecurityPolicy"}

\* The requests of a call that write policies with the given method.
Writes(c, method) ==
    SelectSeq(c.requests, LAMBDA r : r.kind = "securitypolicies" /\ r.method = method)

NoneTargets(items, httpRouteName) ==
    \A i \in 1..Len(items) : ~TargetsRoute(items[i], httpRouteName)

\* The upsert was called twice in a row with the same arguments, the first
\* time on a store without a policy for the route.
UpsertedTwice ==
    /\ Len(history) = 2
    /\ api # "legacy"
    /\ history[1].fn \in UpsertFns
    /\ history[2].fn = history[1].fn
    /\ history[2].httpRouteName = history[1].httpRouteName
    /\ history[2].allowCidrs = history[1].allowCidrs
    /\ history[2].denyCidrs = history[1].denyCidrs
    /\ NoneTargets(history[1].before, history[1].httpRouteName)

CreatedOnce(c) == Len(Writes(c, "POST")) = 1 /\ Len(Writes(c, "PATCH")) = 0

PatchedOnce(c, name) ==
    /\ Len(Writes(c, "PATCH")) = 1
    /\ Writes(c, "PATCH")[1].name = name
    /\ Len(Writes(c, "POST")) = 0

\* C3 as stated: two upserts in a row on a store without a policy for the
\* route issue one creation, then one patch to the created policy, and the
\* second call never issues a creation.
C3_CreateThenPatchAlways ==
    UpsertedTwice
        => /\ CreatedOnce(history[1])
           /\ PatchedOnce(history[2], Writes(history[1], "POST")[1].body.name)

\* C3 amended: the first call issues one creation; the second issues one
\* patch to the created policy and no creation when that creation was
\* applied and its own list of the policies succeeded, and otherwise
\* issues the creation again and no patch.
C3_CreateThenPatch ==
    UpsertedTwice
        => /\ CreatedOnce(history[1])
           /\ IF /\ Writes(history[1], "POST")[1].status = "ok"
                 /\ history[2].requests[1].status = "ok"
              THEN /\ PatchedOnce(history[2], Writes(history[1], "POST")[1].body.name)
                   /\ IndexOfName(history[2].before, Writes(history[2], "PATCH")[1].name) # 0
              ELSE /\ CreatedOnce(history[2])
                   /\ Writes(history[2], "POST")[1].body.name
                        = Writes(history[1], "POST")[1].body.name

\* Two upserts went through: the first created the policy, the second
\* patched it.
C3_Witness ==
    /\ UpsertedTwice
    /\ ~history[1].threw /\ ~history[2].threw
    /\ Writes(history[1], "POST")[1].status = "ok"
    /\ Writes(history[2], "PATCH")[1].status = "ok"
    /\ Writes(history[2], "PATCH")[1].name = history[1].value

LastCall == history[Len(history)]

\* The policy of that name in a list (the caller knows it is there).
Named(items, name) == items[IndexOfName(items, name)]

\* C4: a call that sets one feature leaves every policy of the store in
\* place with its targetRefs, and leaves the other feature's block as it
\* was: the IP access calls do not touch basicAuth, the basic auth call
\* does not touch authorization.
C4_SiblingsUntouched ==
    history # <<>>
        => \A i \in 1..Len(LastCall.before) :
              LET old == LastCall.before[i]
              IN /\ IndexOfName(policies, old.name) # 0
                 /\ Named(policies, old.name).targetRefs = old.targetRefs
                 /\ Named(policies, old.name).ownerReferences = old.ownerReferences
                 /\ LastCall.fn \in IpAccessFns
                       => Named(policies, old.name).basicAuth = old.basicAuth
                 /\ LastCall.fn = "createSecurityPolicyForHTTPRoute"
                       => Named(policies, old.name).authorization = old.authorization

\* IP access was enabled on a policy that carries basic auth, and basic
\* auth was set on a policy that carries rules: both blocks are there.
C4_Witness ==
    /\ Len(history) = 2
    /\ history[1].fn = "createIpAccessSecurityPolicy"
    /\ history[2].fn = "createSecurityPolicyForHTTPRoute"
    /\ Len(Writes(history[1], "PATCH")) = 1 /\ ~history[1].threw
    /\ Len(Writes(history[2], "PATCH")) = 1 /\ ~history[2].threw
    /\ Named(history[1].before, history[1].value).basicAuth.op = "set"
    /\ Named(history[1].before, history[1].value).authorization.op = "absent"
    /\ Named(policies, history[1].value).basicAuth.op = "set"
    /\ Len(FieldVal(Named(policies, history[1].value).authorization)) = 2
    /\ history[2].value = history[1].value

BothListsEmpty(c) == c.allowCidrs = <<>> /\ c.denyCidrs = <<>>

\* C5: with both lists empty, the body of a patch carries authorization:
\* null and the body of a creation has no authorization key.
C5_EmptyListsClearOrOmit ==
    \A k \in 1..Len(history) :
        history[k].fn \in IpAccessFns /\ BothListsEmpty(history[k])
            => /\ \A i \in 1..Len(Writes(history[k], "PATCH")) :
                     Writes(history[k], "PATCH")[i].body.authorization = Clear
               /\ \A i \in 1..Len(Writes(history[k], "POST")) :
                     Writes(history[k], "POST")[i].body.authorization = Absent

\* The authorization key of the bodies a call has sent.
SentAuthorization(c) ==
    [i \in 1..Len(Writes(c, "PATCH") \o Writes(c, "POST")) |->
        (Writes(c, "PATCH") \o Writes(c, "POST"))[i].body.authorization]

\* C6: the builder never emits an empty rules array: it emits rules when a
\* list is non-empty, and when both are empty the clear instruction (or,
\* for a creation, no key).
C6_NoEmptyRulesArray ==
    \A k \in 1..Len(history) :
        history[k].fn \in IpAccessFns
            => \A i \in 1..Len(SentAuthorization(history[k])) :
                  LET a == SentAuthorization(history[k])[i]
                  IN /\ a.op = "set" => Len(a.val) > 0
                     /\ a.op = "set" <=> ~BothListsEmpty(history[k])
                     /\ a.op = "null" => BothListsEmpty(history[k])

\* ------------------------------------------------------------------------
\* Properties of the locator
\* ------------------------------------------------------------------------

\* The positions of the routes that carry the host, or are named like it,
\* and of the policies that target a route.
CarryingHost(host) == {i \in 1..Len(routes) : host \in routes[i].hostnames}

NamedLike(host) == {i \in 1..Len(routes) : routes[i].name = host}

Targeting(httpRouteName) ==
    {i \in 1..Len(policies) :
        \E t \in Elems(FieldVal(policies[i].targetRefs)) :
            t = [group |-> "gateway.networking.k8s.io", kind |-> "HTTPRoute",
                 name |-> httpRouteName]}

TargetingWithRules(httpRouteName) ==
    {i \in Targeting(httpRouteName) : FieldVal(policies[i].authorization) # <<>>}

Lowest(S) == CHOOSE i \in S : \A j \in S : i <= j

\* The name of the first of the listed resources whose position is in S.
FirstNamed(items, S) == IF S = {} THEN Null ELSE items[Lowest(S)].name

DirectFetchFailed == ~lookup.getOk \/ NamedLike(lookup.result.host) = {}

\* C8: when the direct fetch by name fails and the routes are listed, the
\* locator returns the first route whose hostnames contain the host, and
\* only if there is none the first route of that name; a lone route
\* other-route that carries api.example.com is found under that host.
C8_HostnameThenName ==
    /\ lookup.result.fn = "getHttpRouteForHost" /\ DirectFetchFailed /\ lookup.listOk
          => lookup.result.httpRoute =
                IF CarryingHost(lookup.result.host) # {}
                THEN FirstNamed(routes, CarryingHost(lookup.result.host))
                ELSE FirstNamed(routes, NamedLike(lookup.result.host))
    /\ (/\ lookup.result.fn = "getHttpRouteForHost"
        /\ lookup.result.host = "api.example.com"
        /\ lookup.listOk
        /\ routes = <<Route("other-route", {"api.example.com"}, "uid-other")>>)
          => lookup.result.httpRoute = "other-route"

\* The direct fetch failed on a route that exists under the host's name
\* and is listed first; the route that carries the host was returned.
C8_Witness ==
    /\ lookup.result.fn = "getHttpRouteForHost"
    /\ ~lookup.getOk /\ lookup.listOk
    /\ NamedLike(lookup.result.host) # {}
    /\ CarryingHost(lookup.result.host) # {}
    /\ Lowest(NamedLike(lookup.result.host)) < Lowest(CarryingHost(lookup.result.host))
    /\ lookup.result.httpRoute = routes[Lowest(CarryingHost(lookup.result.host))].name

\* C9: the two locators never raise; they return null when nothing
\* matches and when the list call they depend on fails.
C9_LocatorsNeverRaise ==
    /\ lookup.result.fn = "getHttpRouteForHost"
          => /\ ~lookup.result.threw
             /\ (CarryingHost(lookup.result.host) = {} /\ NamedLike(lookup.result.host) = {})
                   => lookup.result.httpRoute = Null
             /\ (DirectFetchFailed /\ ~lookup.listOk) => lookup.result.httpRoute = Null
    /\ lookup.result.fn = "findSecurityPolicyForHTTPRoute"
          => /\ ~lookup.result.threw
             /\ Targeting(lookup.result.host) = {} => lookup.result.securityPolicy = Null
             /\ ~lookup.policiesOk => lookup.result.securityPolicy = Null

\* The list of policies failed while a policy targets the route: null came
\* back and nothing was raised.
C9_Witness ==
    /\ lookup.result.fn = "findSecurityPolicyForHTTPRoute"
    /\ ~lookup.policiesOk
    /\ Targeting(lookup.result.host) # {}
    /\ lookup.result.securityPolicy = Null
    /\ ~lookup.result.threw

PolicyLookups ==
    {"findSecurityPolicyForHTTPRoute", "detectIpAccessConfig", "detectBasicAuthConfig"}

\* The lookup reached the list of policies with a route in hand.
PolicyLookedUp ==
    /\ lookup.result.fn \in PolicyLookups
    /\ lookup.result.httpRoute # Null
    /\ lookup.policiesOk

\* C10 as stated: every lookup of a route's policy selects the first
\* policy in list order that targets the route.
C10_AlwaysFirstTargeting ==
    PolicyLookedUp
        => lookup.result.securityPolicy
              = FirstNamed(policies, Targeting(lookup.result.httpRoute))

\* C10 amended: the lookups select the first policy that targets the
\* route, except the IP access detection of the current revision, which
\* selects the first policy that targets the route and has rules.
C10_FirstTargeting ==
    PolicyLookedUp
        => lookup.result.securityPolicy
              = IF lookup.result.fn = "detectIpAccessConfig" /\ api # "legacy"
                THEN FirstNamed(policies, TargetingWithRules(lookup.result.httpRoute))
                ELSE FirstNamed(policies, Targeting(lookup.result.httpRoute))

\* Two policies target the route; the lookup for the patch target took the
\* first one.
C10_Witness ==
    /\ lookup.result.fn = "findSecurityPolicyForHTTPRoute"
    /\ lookup.policiesOk
    /\ Cardinality(Targeting(lookup.result.httpRoute)) = 2
    /\ lookup.result.securityPolicy
          = policies[Lowest(Targeting(lookup.result.httpRoute))].name

\* ------------------------------------------------------------------------
\* Properties of the forms
\* ------------------------------------------------------------------------

FormHandlers == {"handleEnable", "handleSave", "handleSubmit"}

\* The sanitized entries of the form a handler read, allow first.
EntriesOf(r) == sanitizeList(r.allow) \o sanitizeList(r.deny)

SubmittedEntries == EntriesOf(run)

OffendingIn(entries) == {i \in 1..Len(entries) : ~isValidCIDR(entries[i])}

OffendingAt == OffendingIn(SubmittedEntries)

\* The handler was to apply lists of which an entry is invalid.
AppliedOffending(r) ==
    r.handler \in FormHandlers /\ r.applies /\ OffendingIn(EntriesOf(r)) # {}

HasOffending == AppliedOffending(run)

WriteRequests == {i \in 1..Len(run.requests) : run.requests[i].method # "GET"}

NamesAnOffendingEntry ==
    \E i \in 1..Len(run.messages), k \in OffendingAt :
        run.messages[i].value = SubmittedEntries[k]

NamesFirstOffendingEntry ==
    \E i \in 1..Len(run.messages) :
        run.messages[i].value = SubmittedEntries[Lowest(OffendingAt)]

\* The checks of the create dialog that come before the check of the lists.
PrecedingChecks ==
    {"namespace, name, image, port are required", "port must be a valid number (1-65535)",
     "minScale must be a non-negative number",
     "Basic Auth: username and password are required"}

\* C7 as stated: with an invalid entry in the sanitized lists, the action
\* issues no write and surfaces a message that contains the entry.
C7_InvalidEntryBlockedAndNamed ==
    HasOffending => WriteRequests = {} /\ NamesAnOffendingEntry

\* C7 amended: with an invalid entry in the sanitized lists, the action
\* issues no request and changes nothing on the server, and it surfaces a
\* message with the first invalid entry; the create dialog surfaces the
\* message of a preceding check instead when that check fails.
C7_InvalidEntryBlocked ==
    /\ [](HasOffending
            => /\ run.requests = <<>>
               /\ \/ NamesFirstOffendingEntry
                  \/ /\ run.handler = "handleSubmit"
                     /\ Len(run.messages) = 1
                     /\ run.messages[1].text \in PrecedingChecks)
    /\ [][AppliedOffending(run') => policies' = policies /\ objects' = objects]_vars

\* The create dialog was submitted with a valid entry followed by an
\* invalid one; the invalid one is in the message and nothing was sent.
C7_Witness ==
    /\ run.handler = "handleSubmit"
    /\ run.applies
    /\ Len(SubmittedEntries) > 1
    /\ Lowest(OffendingAt \cup {Len(SubmittedEntries) + 1}) = 2
    /\ run.messages = <<Message("Invalid CIDR format: ", SubmittedEntries[2])>>
    /\ run.requests = <<>>

\* ------------------------------------------------------------------------
\* Properties of the whole engine
\* ------------------------------------------------------------------------

NamesOf(items) == {items[i].name : i \in 1..Len(items)}

DisableFns ==
    {"disableBasicAuthForHTTPRoute", "disableIpAccessSecurityPolicy",
     "deleteRetryBackendTrafficPolicy"}

\* The requests of a call that were applied by the server.
Applied(c, method, kind) ==
    SelectSeq(c.requests,
              LAMBDA r : r.kind = kind /\ r.method = method /\ r.status = "ok")

\* C11 as stated: no operation of the engine removes a policy of either
\* kind from the store: every access policy and every traffic policy that
\* is stored before a call is stored after it.
C11_NoPolicyDeleted ==
    [][/\ NamesOf(policies) \subseteq NamesOf(policies')
       /\ NamesOf(trafficPolicies) \subseteq NamesOf(trafficPolicies')]_vars

\* Every access policy stored before the last call is still stored; the
\* policy a disable patched has lost the block of the disabled feature and
\* kept its other block, its targetRefs and its owner references.
AccessPolicyKeptAndCleared ==
    history # <<>>
        => /\ \A i \in 1..Len(LastCall.before) :
                 IndexOfName(policies, LastCall.before[i].name) # 0
           /\ Len(Applied(LastCall, "DELETE", "securitypolicies")) = 0
           /\ LastCall.fn \in {"disableBasicAuthForHTTPRoute", "disableIpAccessSecurityPolicy"}
                 => \A k \in 1..Len(Applied(LastCall, "PATCH", "securitypolicies")) :
                       LET name == Applied(LastCall, "PATCH", "securitypolicies")[k].name
                           old == Named(LastCall.before, name)
                           new == Named(policies, name)
                       IN /\ new.targetRefs = old.targetRefs
                          /\ new.ownerReferences = old.ownerReferences
                          /\ IF LastCall.fn = "disableBasicAuthForHTTPRoute"
                             THEN new.basicAuth = Absent
                                     /\ new.authorization = old.authorization
                             ELSE new.authorization = Absent
                                     /\ new.basicAuth = old.basicAuth

\* A traffic policy leaves the store in a deleteRetryBackendTrafficPolicy
\* call whose DELETE was applied to it, and in no other step; such a call
\* removes the policy it names and no other.
TrafficPolicyDeletedByRetryDisable(before, after, c) ==
    LET deleted == Applied(c, "DELETE", "backendtrafficpolicies")
    IN IF c.fn = "deleteRetryBackendTrafficPolicy" /\ Len(deleted) = 1
       THEN NamesOf(after) = NamesOf(before) \ {deleted[1].name}
       ELSE NamesOf(before) \subseteq NamesOf(after)

\* C11, amended: no operation of the engine deletes an access policy; the
\* basic auth and IP access disables clear their block of the policy and
\* leave the policy in the store; the retry disable deletes the traffic
\* policy it names, and nothing else removes a traffic policy.
C11_AccessPolicyKept ==
    /\ []AccessPolicyKeptAndCleared
    /\ [][TrafficPolicyDeletedByRetryDisable(trafficPolicies, trafficPolicies',
                                             history'[Len(history')])]_vars

\* Each of the three disables was applied: basic auth was cleared on a
\* policy that keeps its rules, or the rules were cleared on a policy that
\* is still stored, or the traffic policy was deleted.
C11_Witness ==
    /\ history # <<>>
    /\ \/ /\ LastCall.fn = "disableBasicAuthForHTTPRoute"
          /\ \E k \in 1..Len(Applied(LastCall, "PATCH", "securitypolicies")) :
                LET name == Applied(LastCall, "PATCH", "securitypolicies")[k].name
                IN /\ Named(LastCall.before, name).basicAuth # Absent
                   /\ Named(policies, name).basicAuth = Absent
       \/ /\ LastCall.fn = "disableIpAccessSecurityPolicy"
          /\ \E k \in 1..Len(Applied(LastCall, "PATCH", "securitypolicies")) :
                LET name == Applied(LastCall, "PATCH", "securitypolicies")[k].name
                IN /\ Named(LastCall.before, name).authorization # Absent
                   /\ Named(policies, name).authorization = Absent
    /\ Len(history) = 2
    /\ history[1].fn = "deleteRetryBackendTrafficPolicy"
    /\ Len(Applied(history[1], "DELETE", "backendtrafficpolicies")) = 1
    /\ trafficPolicies = <<>>

\* A request of the call that writes, or re-fetches what was written, and
\* failed at the transport.
TransportFailed(c) ==
    \E i \in 1..Len(c.requests) :
        /\ c.requests[i].status = "failed"
        /\ \/ c.requests[i].method \in {"PATCH", "POST", "DELETE"}
           \/ /\ c.requests[i].method = "GET"
              /\ c.requests[i].kind = "securitypolicies"
              /\ c.requests[i].name # ""

\* The upserts of an access policy and of a credential secret.
UpsertOrSecretFns == UpsertFns \cup {"upsertBasicAuthSecret"}

\* C12 as stated: an upsert in which the patch, the re-fetch or the
\* creation failed at the transport does not raise: it returns a failure
\* result to its caller.
C12_FailureResultNeverRaised ==
    history # <<>> /\ LastCall.fn \in UpsertOrSecretFns /\ TransportFailed(LastCall)
        => ~LastCall.threw /\ LastCall.value = "failure"

\* C12, amended: when the patch, the re-fetch or the creation fails at the
\* transport, the upsert of an access policy raises the error to its
\* caller; the upsert of a credential secret returns a failure result
\* without raising in the current revision of the envoy-gateway plugin,
\* and raises in the other two revisions.
C12_FailureRaisedOrReturned ==
    history # <<>> /\ TransportFailed(LastCall)
        => /\ LastCall.fn \in UpsertFns => LastCall.threw
           /\ LastCall.fn = "upsertBasicAuthSecret"
                 => IF api = "gateway"
                    THEN ~LastCall.threw /\ LastCall.value = "failure"
                    ELSE LastCall.threw

\* The write of a secret failed and came back as a failure result, after
\* an upsert of an access policy whose write failed and was raised.
C12_Witness ==
    /\ Len(history) = 2
    /\ history[1].fn \in UpsertFns
    /\ TransportFailed(history[1])
    /\ history[1].threw
    /\ LastCall.fn = "upsertBasicAuthSecret"
    /\ TransportFailed(LastCall)
    /\ LastCall.value = "failure"

PolicyKinds == {"securitypolicies", "backendtrafficpolicies"}

\* The request at position i of the call creates a policy.
CreatesPolicy(c, i) == c.requests[i].method = "POST" /\ c.requests[i].kind \in PolicyKinds

\* An earlier request of the same call listed the policies of that kind.
LookedUpBefore(c, i) ==
    \E j \in 1..(i - 1) :
        /\ c.requests[j].method = "GET"
        /\ c.requests[j].kind = c.requests[i].kind
        /\ c.requests[j].name = ""

\* C15: every creation request for an access policy or a traffic policy
\* comes, within its call, after a lookup of the policies of that kind.
C15_CreationAfterLookup ==
    history # <<>>
        => \A i \in 1..Len(LastCall.requests) :
              CreatesPolicy(LastCall, i) => LookedUpBefore(LastCall, i)

\* ------------------------------------------------------------------------
\* Properties of the retry section
\* ------------------------------------------------------------------------

\* The texts of notifySuccess and of notifyError in RetrySection.
RetrySuccessTexts == {"Retry config enabled", "Retry config updated", "Retry config disabled"}

RetryFailureTexts ==
    {"Failed to enable Retry config", "Failed to update Retry config",
     "Failed to disable Retry config"}

\* A create, patch or delete of the run was refused by the transport.
WriteFailed(r) ==
    \E i \in 1..Len(r.requests) :
        /\ r.requests[i].method \in {"POST", "PATCH", "DELETE"}
        /\ r.requests[i].status = "failed"

Notified(r, texts) == \E i \in 1..Len(r.messages) : r.messages[i].text \in texts

\* C13: a handler of the retry section whose create, patch or delete
\* request failed at the transport notifies a failure and does not notify
\* a success.
C13_FailedWriteReported ==
    WriteFailed(run) => Notified(run, RetryFailureTexts) /\ ~Notified(run, RetrySuccessTexts)

\* ------------------------------------------------------------------------
\* Properties of the create dialog
\* ------------------------------------------------------------------------

\* C14: a run of handleSubmit raises exactly one notification, whatever
\* path it takes (every message of handleSubmit is a notification).
C14_ExactlyOneNotification ==
    run.handler = "handleSubmit" => Len(run.messages) = 1

\* ------------------------------------------------------------------------
\* Properties of the patches
\* ------------------------------------------------------------------------

\* The PATCH requests of a call that the server applied.
AppliedPatches(c, kind) ==
    SelectSeq(c.requests, LAMBDA r : r.kind = kind /\ r.method = "PATCH" /\ r.status = "ok")

\* The lists of access policies and of traffic policies the model meets:
\* the stores a behaviour starts from, the store before the last call and
\* the store now.
AccessPolicyStates ==
    {w.policies : w \in EngineWorlds} \cup {policies}
        \cup {history[i].before : i \in 1..Len(history)}

TrafficPolicyStates == {w.trafficPolicies : w \in EngineWorlds} \cup {trafficPolicies}

BothBuilt == htpasswd.lines[1] # NotBuilt /\ htpasswd.lines[2] # NotBuilt

SamePassword == htpasswd.passwords[1] = htpasswd.passwords[2]

SameLine == htpasswd.lines[1] = htpasswd.lines[2]

SameEncoding ==
    TextEncoderEncode(htpasswd.passwords[1]) = TextEncoderEncode(htpasswd.passwords[2])

RouteFetched(c) == IndexOfName(routes, c.httpRouteName) # 0 /\ c.fault # "route"

\* metadata.ownerReferences that names the route with its uid.
OwnedBy(httpRouteName) ==
    Present(<<[kind |-> "HTTPRoute", name |-> httpRouteName,
               uid |-> Named(routes, httpRouteName).uid]>>)

\* The request created a policy, or a secret for which the caller named
\* the owner route (the earlier revision has no such parameter).
CreatedOwnable(r) ==
    /\ r.method = "POST"
    /\ r.status = "ok"
    /\ \/ r.kind \in PolicyKinds
       \/ r.kind = "secrets" /\ api # "legacy"

\* C23: a policy or secret that a call created for a route it could fetch
\* carries an owner reference naming that route with the route's uid, and
\* no PATCH of the engine touches metadata.ownerReferences.
C23_CreatedResourceOwned ==
    \A c \in Elems(history) : \A r \in Elems(c.requests) :
        /\ (CreatedOwnable(r) /\ RouteFetched(c))
              => r.body.ownerReferences = OwnedBy(c.httpRouteName)
        /\ r.method = "PATCH" => r.body.ownerReferences = Absent

\* ------------------------------------------------------------------------
\* Properties of two instances at work
\* ------------------------------------------------------------------------

\* Both instances have had the answer to a write to the same object.
BothSavedTraffic(a, b) ==
    /\ a # b
    /\ clients[a].op = "saveTraffic" /\ clients[b].op = "saveTraffic"
    /\ clients[a].pc = "done" /\ clients[b].pc = "done"

BothPatchedPolicy(a, b) ==
    /\ a # b
    /\ clients[a].op = "updateIpAccess" /\ clients[b].op = "updateIpAccess"
    /\ clients[a].name = clients[b].name
    /\ clients[a].pc = "done" /\ clients[b].pc = "done"

\* The server applied both writes, the one of `a` first, and told both
\* instances of a success.
BothAccepted(a, b) ==
    /\ clients[a].result = "success"
    /\ clients[b].result = "success"
    /\ clients[a].rank > 0
    /\ clients[b].rank > 0

\* The authorization block the update of an instance asks for.
AskedAuthorization(c) ==
    MergePatchField(Absent, AuthorizationOf(api, clients[c].lists[1], clients[c].lists[2], TRUE))

\* C24: when two instances save the traffic list of one service, or patch
\* the same policy, and the transport fails neither, both writes are
\* accepted whatever their order and whatever each instance had loaded:
\* each instance is told of a success, and the server holds what the later
\* write sent.
C24_LaterWriteWins ==
    \A a, b \in Clients :
        /\ (BothSavedTraffic(a, b) /\ clients[a].fault = "ok" /\ clients[b].fault = "ok")
              => /\ BothAccepted(a, b)
                 /\ clients[a].rank < clients[b].rank => traffic = clients[b].list
        /\ (BothPatchedPolicy(a, b) /\ clients[a].fault = "none" /\ clients[b].fault = "none")
              => /\ BothAccepted(a, b)
                 /\ clients[a].rank < clients[b].rank
                       => Named(policies, clients[b].name).authorization
                              = AskedAuthorization(b)

\* Both instances loaded the same list, saved different lists and were
\* told of a success; the server holds the later list only.
C24_Witness ==
    \E a, b \in Clients :
        /\ BothSavedTraffic(a, b)
        /\ clients[a].rank < clients[b].rank
        /\ clients[a].base = clients[b].base
        /\ clients[a].list # clients[b].list
        /\ clients[a].result = "success"
        /\ clients[b].result = "success"
        /\ traffic = clients[b].list
        /\ traffic # clients[a].list

\* The access policies that target the route of the sections.
RacePolicies == {i \in 1..Len(policies) : TargetsRoute(policies[i], RaceRoute)}

\* C26: no policy targets the route at the start; whatever enable actions
\* the instances run for it, one after the other or interleaved, at most
\* one access policy targets the route.
C26_AtMostOnePolicy == Cardinality(RacePolicies) <= 1

\* ------------------------------------------------------------------------
\* Properties of the basic auth section
\* ------------------------------------------------------------------------

\* The form a run of handleEnableSave read.
FormOf(a) ==
    [BasicAuthUnmounted EXCEPT !.httpRouteName = "other-route",
                               !.formUsername = a.username,
                               !.formPassword = a.password,
                               !.formSecretName = a.secretName]

\* What a run with the inputs of `a` leaves when nothing fails, started
\* from the stores `a` started from.
UndisturbedRun(a) ==
    EnableSaveRequests(api, FormOf(a), a.before, routes, htpasswd, "none", "none").stores

\* The first run wrote the secret and failed at the policy; the second
\* run had the same inputs and met no failure.
RetriedAfterPartialFailure(at) ==
    /\ Len(at) = 2
    /\ at[1].outcome = "failed"
    /\ at[1].secretFault = "none"
    /\ at[1].policyFault \in {"write", "response"}
    /\ at[2].username = at[1].username
    /\ at[2].password = at[1].password
    /\ at[2].secretName = at[1].secretName
    /\ at[2].outcome # "invalid"
    /\ at[2].secretFault = "none"
    /\ at[2].policyFault = "none"

SecretsNamed(name) == {x \in secretStore : x.name = name}

PoliciesReferencing(name) ==
    {i \in 1..Len(policies) :
        TargetsRoute(policies[i], "other-route") /\ policies[i].basicAuth = Present(<<name>>)}

\* C25: a run of the enable action that wrote the secret and failed at
\* the policy, followed by a run with the same inputs that meets no
\* failure: the second run succeeds and the stores are those of a run
\* that never failed, with one secret that holds the credential and one
\* policy of the route that names the secret.
C25_RetryConverges ==
    LET at == basicAuthSection.attempts
    IN RetriedAfterPartialFailure(at)
          => /\ at[2].outcome = "success"
             /\ Stores(objects, secretStore, policies) = UndisturbedRun(at[1])
             /\ SecretsNamed(at[1].secretName)
                   = {Secret(at[1].secretName,
                             HtpasswdData(at[1].username,
                                          LineBuilt(htpasswd, at[1].username, at[1].password)),
                             RouteOwner)}
             /\ Cardinality(RacePolicies) = 1
             /\ PoliciesReferencing(at[1].secretName) = RacePolicies

\* The POST of the policy was refused in the first run and nothing was
\* stored for the route before it; the second run created the policy.
C25_Witness ==
    LET at == basicAuthSection.attempts
    IN /\ RetriedAfterPartialFailure(at)
       /\ at[1].policyFault = "write"
       /\ at[1].before = Stores({}, {}, <<>>)
       /\ at[2].before.secretStore # {}
       /\ at[2].before.policies = <<>>
       /\ at[2].outcome = "success"
       /\ Len(policies) = 1
       /\ Cardinality(secretStore) = 1

\* ------------------------------------------------------------------------
\* Properties of the key-value secret
\* ------------------------------------------------------------------------

\* The last run of handleEditSave, and whether its upsert patched the
\* secret that was there.
LastKeyAttempt == apiKeys.attempts[Len(apiKeys.attempts)]

PatchedExistingSecret(a) ==
    /\ Len(a.requests) >= 2
    /\ a.requests[2].method = "PATCH"
    /\ a.requests[2].status = "ok"

\* C27: after the upsert of the pairs has patched an existing secret, the
\* keys of the stored secret are the client identifiers of the pairs and
\* no other.
C27_KeySetReplaced ==
    (apiKeys.attempts # <<>> /\ PatchedExistingSecret(LastKeyAttempt))
        => DataKeys(StoredSecret(secretStore, ApiKeySecretName).data)
               = DataKeys(LastKeyAttempt.pairs)

\* ------------------------------------------------------------------------
\* Properties of the lookups of the upserts
\* ------------------------------------------------------------------------

\* The read of the lookup step of a call failed: the fetch of the secret
\* or the list of the policies came back with an error.
LookupReadFailed(c) ==
    /\ c.fault = "list"
    /\ \E i \in 1..Len(c.requests) :
          /\ c.requests[i].method = "GET"
          /\ c.requests[i].kind \in {"secrets", "securitypolicies"}
          /\ c.requests[i].status = "failed"

\* The resource a creation request of a call is for was in the store: a
\* policy that targets the route of the call, or, for a secret, the name
\* (with the write itself undisturbed, only a conflict refuses the POST).
CreatesExisting(c, r) ==
    /\ r.method = "POST"
    /\ \/ /\ r.kind = "securitypolicies"
          /\ \E k \in 1..Len(c.before) : TargetsRoute(c.before[k], c.httpRouteName)
       \/ /\ r.kind = "secrets"
          /\ r.status = "failed"

\* C28: a call whose lookup read failed issues no creation request for a
\* resource that is in the store.
C28_NoCreationAfterFailedRead ==
    \A i \in 1..Len(history) :
        LookupReadFailed(history[i])
            => \A k \in 1..Len(history[i].requests) :
                   ~CreatesExisting(history[i], history[i].requests[k])

\* ------------------------------------------------------------------------
\* Properties of the load and save round trip
\* ------------------------------------------------------------------------

\* The revisions a list names.
NamedRevisions(list) ==
    {list[i].revisionName : i \in {k \in 1..Len(list) : ~list[k].latestRevision}} \ {""}

ListWeight(list, rev) == BucketPercent(RevEntries(list, rev))

ListTags(list, rev) == Elems(BucketTags(RevEntries(list, rev)))

\* C29: a save of the loaded state without an edit sends a list that gives
\* every revision the server's list names, and "latest", the weight and
\* the tags the server's list gives it.
C29_RoundTripKeeps ==
    inflight.handler # "none"
        => /\ \A rev \in NamedRevisions(traffic) :
                 /\ ListWeight(inflight.traffic, rev) = ListWeight(traffic, rev)
                 /\ ListTags(inflight.traffic, rev) = ListTags(traffic, rev)
           /\ BucketPercent(LatestEntries(inflight.traffic))
                 = BucketPercent(LatestEntries(traffic))
           /\ Elems(BucketTags(LatestEntries(inflight.traffic)))
                 = Elems(BucketTags(LatestEntries(traffic)))

\* ------------------------------------------------------------------------
\* Properties of the wait for a route
\* ------------------------------------------------------------------------

\* What the last poll saw: the first external route, else the first
\* internal one.
LastObserved ==
    FirstRoute([external |-> waiting.last.external, internal |-> waiting.last.internal])

\* The wait goes on only after a poll that saw no route within the
\* timeout; it ends with the route the last poll saw, or with null after a
\* poll that saw none and came back later than the timeout; it never ends
\* with an error.
WaitSafety ==
    /\ waiting.pc \in {"idle", "polling", "sleeping", "done"}
    /\ waiting.pc = "sleeping"
          => LastObserved = Null /\ waiting.last.elapsed <= waiting.timeoutMs
    /\ (waiting.pc = "polling" /\ waiting.polls > 0)
          => LastObserved = Null
    /\ (waiting.pc = "done" /\ waiting.result # Null)
          => waiting.result = LastObserved
    /\ (waiting.pc = "done" /\ waiting.result = Null)
          => LastObserved = Null /\ waiting.last.elapsed > waiting.timeoutMs
    /\ waiting.last.failed
          => waiting.last.external = <<>> /\ waiting.last.internal = <<>>

\* C30: a call of waitForServiceHttpRoute ends, with the route of the
\* first poll that sees one (the first external route, else the first
\* internal one) or with null once a poll that sees none comes back later
\* than the timeout; a failed list call is a poll that saw no route and
\* does not end the wait by itself.
C30_WaitTerminates ==
    /\ []WaitSafety
    /\ (waiting.pc = "polling") ~> (waiting.pc = "done")

\* The wait ended with the external route, listed after an internal one,
\* after a poll whose list calls had failed.
C30_Witness ==
    /\ waiting.pc = "done"
    /\ waiting.result = "svc"
    /\ "svc-local" \in waiting.present
    /\ waiting.polls = 2
    /\ waiting.failures = 1
    /\ ~waiting.last.failed

============================================================================
